---- MODULE Spec2Model ----
(***************************************************************************)
(* Model of the YouTube comment extractor: the extraction service          *)
(* (services/youtubeApiService.ts: extractVideoId, matchesKeywords,        *)
(* evaluateExpression, extractCommentsFromVideos) and the App component    *)
(* that drives it (App.tsx: handleExtractComments, handleCancelExtraction).*)
(*                                                                         *)
(* JavaScript strings that the code inspects (references, comment texts,   *)
(* keyword expressions) are sequences of one-character strings.  Values    *)
(* the code only passes around (page tokens, titles, authors, comment ids) *)
(* are atomic strings.                                                     *)
(***************************************************************************)
EXTENDS Integers, Sequences, FiniteSets, TLC

VARIABLES
    \* the arguments of extractCommentsFromVideos, and the time zone
    urls, startDate, endDate, keywords, onProgress, tz,
    \* abortSignal.aborted
    aborted,
    \* the run: the await at which it is suspended, and its locals
    pc, urlIndex, videoId, videoTitle, pageToken, pageCount,
    allComments, seenCommentIds,
    \* how the call ended: [kind |-> "pending"], [kind |-> "returned", value],
    \* [kind |-> "threw", message]
    outcome,
    \* what an observer of the run has seen: the last request sent to the
    \* backend, the last answer handled, the requests and progress calls of
    \* the current reference, the last snapshot handed to onProgress (in a
    \* sequence that is empty before the first call), and when the signal
    \* was aborted
    lastRequest, lastResponse, ref, delivered, abortedWhen,
    \* the state of the App component
    comments, isLoading, error, abortController,
    \* a call of one of the service's functions on its own, outside a run:
    \* the function, its arguments, and its result once it has returned
    fnCall,
    \* the pages that the remote source is going to serve, one after the
    \* other, when it follows a script (<<>> when it does not)
    script,
    \* a request to the backend (server.js): the route, the body, the await
    \* at which the handler is suspended, the calls made to the upstream
    \* API, its answer, and the response sent
    backend

\* ------------------------------------------------------------------------
\* Strings
\* ------------------------------------------------------------------------

Uppers == <<"A","B","C","D","E","F","G","H","I","J","K","L","M",
            "N","O","P","Q","R","S","T","U","V","W","X","Y","Z">>

Lowers == <<"a","b","c","d","e","f","g","h","i","j","k","l","m",
            "n","o","p","q","r","s","t","u","v","w","x","y","z">>

Digits == {"0","1","2","3","4","5","6","7","8","9"}

Range(s) == {s[i] : i \in DOMAIN s}

\* \s of a JavaScript regular expression, and what String.trim removes
\* (the characters of it that the inputs of the model use).
Whitespace == {" ", "\t", "\n", "\r"}

\* String.prototype.toLowerCase, one character.
ToLowerChar(c) ==
    IF \E i \in DOMAIN Uppers : Uppers[i] = c
    THEN Lowers[CHOOSE i \in DOMAIN Uppers : Uppers[i] = c]
    ELSE c

\* String.prototype.toLowerCase.
ToLower(s) == [i \in DOMAIN s |-> ToLowerChar(s[i])]

\* s.substring(from - 1): the characters of s from position from on.
Drop(s, from) == IF from > Len(s) THEN <<>> ELSE SubSeq(s, from, Len(s))

\* s.substring(0, n).
Take(s, n) == IF n <= 0 THEN <<>> ELSE SubSeq(s, 1, IF n < Len(s) THEN n ELSE Len(s))

\* p occurs in s starting at position i.
MatchesAt(s, i, p) ==
    /\ i >= 1
    /\ i + Len(p) - 1 <= Len(s)
    /\ \A k \in 1..Len(p) : s[i + k - 1] = p[k]

\* String.prototype.includes.
Includes(s, p) == \E i \in 1..(Len(s) + 1) : MatchesAt(s, i, p)

\* String.prototype.trim.
TrimStart(s) ==
    IF \A i \in DOMAIN s : s[i] \in Whitespace THEN <<>>
    ELSE Drop(s, CHOOSE i \in DOMAIN s :
                    /\ s[i] \notin Whitespace
                    /\ \A j \in 1..(i - 1) : s[j] \in Whitespace)

TrimEnd(s) ==
    IF \A i \in DOMAIN s : s[i] \in Whitespace THEN <<>>
    ELSE Take(s, CHOOSE i \in DOMAIN s :
                    /\ s[i] \notin Whitespace
                    /\ \A j \in (i + 1)..Len(s) : s[j] \in Whitespace)

Trim(s) == TrimEnd(TrimStart(s))

\* ------------------------------------------------------------------------
\* extractVideoId
\* ------------------------------------------------------------------------

\* The value null (and undefined) of a string-valued expression; like the
\* empty string it is falsy, and no match of either pattern is empty.
Null == <<>>

WatchPrefix == <<"y","o","u","t","u","b","e",".","c","o","m","/",
                 "w","a","t","c","h","?","v","=">>

ShortPrefix == <<"y","o","u","t","u",".","b","e","/">>

EmbedPrefix == <<"y","o","u","t","u","b","e",".","c","o","m","/",
                 "e","m","b","e","d","/">>

\* A variant of UrlPrefixes without the short link.
UrlPrefixesWithoutShort == {WatchPrefix, EmbedPrefix}

UrlPrefixes == {WatchPrefix, ShortPrefix, EmbedPrefix}

\* The characters that end the capture group [^&\n?#]+.
IdStopChars == {"&", "\n", "?", "#"}

\* [a-zA-Z0-9_-]
IdChars == Range(Uppers) \cup Range(Lowers) \cup Digits \cup {"_", "-"}

\* {11}
VideoIdLength == 11

\* The first pattern matches at position i: one of the three prefixes,
\* followed by at least one character outside IdStopChars.
UrlPatternAt(url, i) ==
    \E p \in UrlPrefixes :
        /\ MatchesAt(url, i, p)
        /\ i + Len(p) <= Len(url)
        /\ url[i + Len(p)] \notin IdStopChars

\* The capture group of the first pattern for the match that starts at i:
\* the longest run of characters outside IdStopChars after the prefix.
UrlPatternGroup(url, i) ==
    LET p     == CHOOSE q \in UrlPrefixes : MatchesAt(url, i, q)
        first == i + Len(p)
        stops == {k \in first..Len(url) : url[k] \in IdStopChars}
        last  == IF stops = {} THEN Len(url)
                 ELSE (CHOOSE k \in stops : \A m \in stops : k <= m) - 1
    IN  SubSeq(url, first, last)

\* The second pattern, /^([a-zA-Z0-9_-]{11})$/.
DirectIdPattern(url) ==
    /\ Len(url) = VideoIdLength
    /\ \A i \in DOMAIN url : url[i] \in IdChars

extractVideoId(url) ==
    LET starts == {i \in DOMAIN url : UrlPatternAt(url, i)}
    IN  IF starts # {}
        THEN UrlPatternGroup(url, CHOOSE i \in starts : \A j \in starts : i <= j)
        ELSE IF DirectIdPattern(url) THEN url
        ELSE Null

\* ------------------------------------------------------------------------
\* matchesKeywords, evaluateExpression
\* ------------------------------------------------------------------------

OrToken == <<"o","r">>

AndToken == <<"a","n","d">>

NotToken == <<"n","o","t">>

\* The line terminators, which "." of a regular expression does not match.
LineTerminators == {"\n", "\r"}

\* The position after the run of whitespace that starts at i.
SkipWhitespace(s, i) ==
    IF \A k \in i..Len(s) : s[k] \in Whitespace THEN Len(s) + 1
    ELSE CHOOSE k \in i..Len(s) :
            /\ s[k] \notin Whitespace
            /\ \A m \in i..(k - 1) : s[m] \in Whitespace

\* /\s+OP\s+/i matches at position i (the flag i: OP in any case).
OperatorAt(s, i, op) ==
    /\ i \in DOMAIN s
    /\ s[i] \in Whitespace
    /\ LET j == SkipWhitespace(s, i)
       IN  /\ MatchesAt(ToLower(s), j, op)
           /\ j + Len(op) <= Len(s)
           /\ s[j + Len(op)] \in Whitespace

\* The position after the match of /\s+OP\s+/i that starts at i.
OperatorEnd(s, i, op) == SkipWhitespace(s, SkipWhitespace(s, i) + Len(op))

\* s.split(/\s+OP\s+/i): parts[i] is the split of s from position i on.
SplitOperator(s, op) ==
    LET parts[i \in 1..(Len(s) + 1)] ==
            LET starts == {k \in i..Len(s) : OperatorAt(s, k, op)}
            IN  IF starts = {} THEN <<Drop(s, i)>>
                ELSE LET k == CHOOSE m \in starts : \A n \in starts : m <= n
                     IN  <<SubSeq(s, i, k - 1)>> \o parts[OperatorEnd(s, k, op)]
    IN  parts[1]

\* A variant of SplitComma that does not split.
SplitCommaWhole(s) == <<s>>

\* s.split(','): parts[i] is the split of s from position i on.
SplitComma(s) ==
    LET parts[i \in 1..(Len(s) + 1)] ==
            LET commas == {k \in i..Len(s) : s[k] = ","}
            IN  IF commas = {} THEN <<Drop(s, i)>>
                ELSE LET k == CHOOSE m \in commas : \A n \in commas : m <= n
                     IN  <<SubSeq(s, i, k - 1)>> \o parts[k + 1]
    IN  parts[1]

\* parts.map(p => p.trim())
MapTrim(parts) == [i \in DOMAIN parts |-> Trim(parts[i])]

\* parts.filter(p => p)
FilterNonEmpty(parts) == SelectSeq(parts, LAMBDA p : p # <<>>)

\* andPart.match(/^\s*NOT\s+(.+)$/i) is not null.
NotMatch(andPart) ==
    LET i == SkipWhitespace(andPart, 1)
        j == SkipWhitespace(andPart, i + Len(NotToken))
    IN  /\ MatchesAt(ToLower(andPart), i, NotToken)
        /\ i + Len(NotToken) <= Len(andPart)
        /\ andPart[i + Len(NotToken)] \in Whitespace
        /\ j <= Len(andPart)
        /\ \A k \in j..Len(andPart) : andPart[k] \notin LineTerminators

\* notMatch[1]
NotMatchGroup(andPart) ==
    Drop(andPart, SkipWhitespace(andPart, SkipWhitespace(andPart, 1) + Len(NotToken)))

\* One AND part: a negated or a plain substring test.
EvaluateAndPart(text, andPart) ==
    IF NotMatch(andPart)
    THEN ~Includes(text, Trim(NotMatchGroup(andPart)))
    ELSE Includes(text, Trim(andPart))

evaluateExpression(text, expression) ==
    LET orParts == MapTrim(SplitOperator(expression, OrToken))
    IN  \E o \in DOMAIN orParts :
            LET andParts == MapTrim(SplitOperator(orParts[o], AndToken))
            IN  \A a \in DOMAIN andParts : EvaluateAndPart(text, andParts[a])

matchesKeywords(text, kw) ==
    IF kw = <<>> \/ Trim(kw) = <<>> THEN TRUE
    ELSE LET lowerText     == ToLower(text)
             lowerKeywords == ToLower(kw)
             commaParts    == FilterNonEmpty(MapTrim(SplitComma(lowerKeywords)))
         IN  IF Len(commaParts) > 1
             THEN \E c \in DOMAIN commaParts : evaluateExpression(lowerText, commaParts[c])
             ELSE evaluateExpression(lowerText, lowerKeywords)

\* ------------------------------------------------------------------------
\* Dates
\* ------------------------------------------------------------------------

\* A calendar date 'YYYY-MM-DD' is the number of its day; an instant is a
\* number of milliseconds (UTC) since the start of day 0.
MsPerHour == 3600000

MsPerDay == 24 * MsPerHour

\* The time value of an Invalid Date.
NaN == -1

\* new Date('YYYY-MM-DD'): a date-only string is midnight UTC.
DateOf(day) == day * MsPerDay

\* end.setHours(23, 59, 59, 999): the last millisecond of the LOCAL day of
\* the instant, where local time is UTC + zone hours.
SetHoursEndOfDay(instant, zone) ==
    LET local == instant + zone * MsPerHour
    IN  (local \div MsPerDay) * MsPerDay + (MsPerDay - 1) - zone * MsPerHour

\* publishedAt < start || publishedAt > end (an Invalid Date compares false).
OutsideDateRange(publishedAt, start, end, zone) ==
    /\ publishedAt # NaN
    /\ \/ publishedAt < DateOf(start)
       \/ publishedAt > SetHoursEndOfDay(DateOf(end), zone)

\* publishedAt.toISOString().split("T")[0]: the UTC calendar date.
IsoDate(publishedAt) == publishedAt \div MsPerDay

\* ------------------------------------------------------------------------
\* Inputs and the remote source
\* ------------------------------------------------------------------------

\* Bounds of the model.
MaxUrls == 2

MaxPageLen == 2

\* 'https://www.youtube.com/watch?v=dQw4w9WgXcQ'
WatchUrlA == <<"h","t","t","p","s",":","/","/","w","w","w",".">> \o WatchPrefix
                \o <<"d","Q","w","4","w","9","W","g","X","c","Q">>

\* 'abcdefghijk', a bare identifier
BareIdB == <<"a","b","c","d","e","f","g","h","i","j","k">>

\* 'dQw4w9WgXcQ', the identifier of WatchUrlA as a bare identifier
BareIdA == <<"d","Q","w","4","w","9","W","g","X","c","Q">>

\* 'not a url'
NotAUrl == <<"n","o","t"," ","a"," ","u","r","l">>

RefPool == {WatchUrlA, BareIdB, NotAUrl}

\* The sequences over S of length at most n.
SeqsUpTo(S, n) == UNION {[1..k -> S] : k \in 0..n}

UrlLists == SeqsUpTo(RefPool, MaxUrls)

\* The calendar dates of the run: <<startDate, endDate>>.
DatePool == {<<1, 2>>}

\* 'great, bad'
KeywordsGreatOrBad == <<"g","r","e","a","t",","," ","b","a","d">>

KeywordPool == {KeywordsGreatOrBad}

\* The offset of local time from UTC, in hours.
TimeZonePool == {0}

\* The comment threads the remote source serves.  wellFormed: the record
\* has snippet.topLevelComment.snippet.
Thread(id, wellFormed, publishedAt, text, likeCount) ==
    [id |-> id, wellFormed |-> wellFormed, publishedAt |-> publishedAt,
     author |-> "author", text |-> text, likeCount |-> likeCount]

ThreadPool ==
    { Thread("c1", TRUE, 2 * MsPerDay + 12 * MsPerHour,
             <<"G","r","e","a","t"," ","v","i","d","e","o">>, 3),
      Thread("c2", TRUE, 1 * MsPerDay,
             <<"s","o"," ","b","a","d">>, 0),
      Thread("c3", TRUE, 2 * MsPerDay + 12 * MsPerHour,
             <<"m","e","h">>, 1),
      Thread("c4", TRUE, 3 * MsPerDay,
             <<"g","r","e","a","t">>, 1),
      Thread("c5", FALSE, NaN, <<>>, 0),
      Thread("c6", TRUE, NaN, <<"b","a","d">>, 0) }

PagePool == SeqsUpTo(ThreadPool, MaxPageLen)

\* commentsData.nextPageToken; undefined and '' are both falsy.
NoToken == ""

TokenPool == {"T1"}

TitlePool == {"Video A"}

\* What fetchVideoDetails does: it throws, or returns the response body.
\*   noItems:   no items, or an empty list
\*   noSnippet: an item without snippet, or a snippet without title
DetailsResponses ==
    {[kind |-> "error"], [kind |-> "noItems"], [kind |-> "noSnippet"]}
        \cup {[kind |-> "ok", title |-> t] : t \in TitlePool}

\* What fetchComments does: it throws (the backend's message says that
\* comments are disabled, or something else), or returns the response body.
CommentsResponses ==
    {[kind |-> "error"], [kind |-> "commentsDisabled"]}
        \cup {[kind |-> "ok", items |-> items, nextPageToken |-> next] :
                items \in PagePool, next \in TokenPool \cup {NoToken}}

\* What a call of the caller's onProgress does.
CallbackOutcomes == {"returns", "throwsError", "throwsValue"}

\* extractVideoId on the references of the model, computed once: the pairs
\* <<url, extractVideoId(url)>>.
VideoIdTable == {<<url, extractVideoId(url)>> : url \in RefPool \cup {BareIdA}}

VideoIdOf(url) == (CHOOSE p \in VideoIdTable : p[1] = url)[2]

TextPool == {thread.text : thread \in ThreadPool}

\* matchesKeywords on the texts and expressions of the model, computed once:
\* the triples <<text, kw, matchesKeywords(text, kw)>>.
KeywordTable ==
    {<<text, kw, matchesKeywords(text, kw)>> : text \in TextPool, kw \in KeywordPool}

KeywordMatch(text, kw) == <<text, kw, TRUE>> \in KeywordTable

\* ------------------------------------------------------------------------
\* State
\* ------------------------------------------------------------------------

inputVars == <<urls, startDate, endDate, keywords, onProgress, tz>>

localVars == <<urlIndex, videoId, videoTitle, pageToken, pageCount,
               allComments, seenCommentIds>>

observedVars == <<lastRequest, lastResponse, ref, delivered, abortedWhen>>

appVars == <<comments, isLoading, error, abortController>>

vars == <<inputVars, aborted, pc, localVars, outcome, observedVars, appVars,
          fnCall, script, backend>>

MAX_PAGES == 10

\* Error messages are sequences of fragments, so that they concatenate.
CancelledMessage == <<"Extraction cancelled">>

\* `Failed to fetch comments: ${error}` for an Error with that message
WrappedError(message) == <<"Failed to fetch comments: ", "Error: ">> \o message

\* `Failed to fetch comments: ${error}` for a TypeError
WrappedTypeError == <<"Failed to fetch comments: ", "TypeError: ">>

\* The App's error state when there is none (null).
NoError == <<>>

\* The App's abortController state when there is none (null).
NoController == "null"

NoRequest == [op |-> "none"]

NoResponse == [op |-> "none"]

\* What the run has last been answered: to which request (op, the index of
\* the reference, the number of the page), with what (kind, and the cursor
\* of a page), and what the run did with it (handled: "done", or the kind
\* of error that ended the processing; duplicates: whether line 195
\* discarded a thread of the page).
Response(op, index, page, kind, cursor, handled, duplicates) ==
    [op |-> op, index |-> index, page |-> page, kind |-> kind,
     cursor |-> cursor, handled |-> handled, duplicates |-> duplicates]

\* The record of what the run did for the reference at index i.
NewRef(i) == [index |-> i, pageRequests |-> 0, progressCalls |-> 0]

\* ------------------------------------------------------------------------
\* The end of the call, and the App's continuation (App.tsx, lines 49-59)
\* ------------------------------------------------------------------------

\* A variant of AppAfterRun without the finally clause.
AppAfterRunWithoutFinally(result, shown) ==
    /\ comments' = IF result.kind = "returned" THEN result.value ELSE shown
    /\ error' = IF result.kind = "returned" THEN error
                ELSE IF result.message = CancelledMessage
                     THEN <<"Extraction cancelled by user.">>
                     ELSE IF result.message # <<>> THEN result.message
                          ELSE <<"An unexpected error occurred.">>
    /\ UNCHANGED <<isLoading, abortController>>

\* setComments(extracted) after a return; the catch clause after a throw;
\* then the finally clause.  shown: the App's comments when the call ends.
AppAfterRun(result, shown) ==
    /\ comments' = IF result.kind = "returned" THEN result.value ELSE shown
    /\ error' = IF result.kind = "returned" THEN error
                ELSE IF result.message = CancelledMessage
                     THEN <<"Extraction cancelled by user.">>
                     ELSE IF result.message # <<>> THEN result.message
                          ELSE <<"An unexpected error occurred.">>
    /\ isLoading' = FALSE
    /\ abortController' = NoController

\* The call ends with result; a caller that is the App goes on.
Finish(result, shown) ==
    /\ pc' = "done"
    /\ outcome' = result
    /\ IF onProgress = "setComments"
       THEN AppAfterRun(result, shown)
       ELSE /\ comments' = shown
            /\ UNCHANGED <<isLoading, error, abortController>>

\* Line 239: return allComments.
Return(value, shown) == Finish([kind |-> "returned", value |-> value], shown)

\* Lines 240-243: the catch clause around the loop rethrows what the loop
\* threw, wrapped.
ThrowWrapped(message, shown) == Finish([kind |-> "threw", message |-> message], shown)

\* Lines 133-136 and 171-174: the checks inside the loop throw
\* Error('Extraction cancelled'), which the catch clause wraps.
ThrowCancelledInLoop(shown) == ThrowWrapped(WrappedError(CancelledMessage), shown)

\* The call goes on: it has not ended.
GoOn(shown) ==
    /\ outcome' = outcome
    /\ comments' = shown
    /\ UNCHANGED <<isLoading, error, abortController>>

\* ------------------------------------------------------------------------
\* extractCommentsFromVideos
\* ------------------------------------------------------------------------

\* A variant of NextValid that takes the reference at index i as it is.
NextWhetherValidOrNot(list, i) == i

\* Lines 138-143: the first reference from index i on that resolves to an
\* identifier; Len(list) + 1 if there is none.
NextValid(list, i) ==
    LET valid == {j \in i..Len(list) : VideoIdOf(list[j]) # Null}
    IN  IF valid = {} THEN Len(list) + 1
        ELSE CHOOSE j \in valid : \A k \in valid : j <= k

\* Lines 131-150 and 239: the for loop from the top of the iteration for
\* index i, up to the request for the details of the next video that
\* resolves, or to the end of the call.  all: the accumulator.
AtLoopTop(list, i, all, shown) ==
    LET j == NextValid(list, i)
    IN  IF i > Len(list)
        THEN /\ Return(all, shown)
             /\ urlIndex' = i
             /\ UNCHANGED <<videoId, lastRequest, ref>>
        ELSE IF aborted
        THEN /\ ThrowCancelledInLoop(shown)
             /\ urlIndex' = i
             /\ UNCHANGED <<videoId, lastRequest, ref>>
        ELSE IF j > Len(list)
        THEN /\ Return(all, shown)
             /\ urlIndex' = j
             /\ UNCHANGED <<videoId, lastRequest, ref>>
        ELSE /\ pc' = "awaitDetails"
             /\ urlIndex' = j
             /\ videoId' = VideoIdOf(list[j])
             /\ lastRequest' = [op |-> "video-details", index |-> j,
                                videoId |-> VideoIdOf(list[j])]
             /\ ref' = NewRef(j)
             /\ GoOn(shown)

\* A variant of AtPageTop without the check of the signal.
AtPageTopUnchecked(token, shown) ==
    /\ pc' = "awaitComments"
    /\ lastRequest' = [op |-> "comments", index |-> urlIndex,
                       videoId |-> videoId, pageToken |-> token]
    /\ ref' = [ref EXCEPT !.pageRequests = @ + 1]
    /\ GoOn(shown)

\* Lines 169-177: the do loop from the top of an iteration, up to the
\* request for a page of comments with the cursor token.
AtPageTop(token, shown) ==
    IF aborted
    THEN /\ ThrowCancelledInLoop(shown)
         /\ UNCHANGED <<lastRequest, ref>>
    ELSE /\ pc' = "awaitComments"
         /\ lastRequest' = [op |-> "comments", index |-> urlIndex,
                            videoId |-> videoId, pageToken |-> token]
         /\ ref' = [ref EXCEPT !.pageRequests = @ + 1]
         /\ GoOn(shown)

\* Lines 233-236: after the do loop, the delay between videos starts.
AfterPaging(shown) ==
    /\ pc' = "delayVideo"
    /\ GoOn(shown)

\* Lines 122-150: the call, up to its first await or to its end.
Call ==
    /\ pc = "start"
    /\ UNCHANGED <<backend, fnCall, script, inputVars, aborted, videoTitle, pageToken, pageCount,
                   allComments, seenCommentIds, lastResponse, delivered,
                   abortedWhen>>
    /\ IF aborted
       THEN \* lines 126-128, outside the try
            /\ Finish([kind |-> "threw", message |-> CancelledMessage], comments)
            /\ UNCHANGED <<urlIndex, videoId, lastRequest, ref>>
       ELSE AtLoopTop(urls, 1, allComments, comments)

\* A variant of SkipVideo that asks for the video's comments all the same.
SkipVideoFetchesComments(shown) ==
    /\ videoTitle' = videoTitle
    /\ pageToken' = NoToken
    /\ pageCount' = 0
    /\ AtPageTop(NoToken, shown)
    /\ UNCHANGED <<urlIndex, videoId>>

\* Lines 151-159: no details for the video (the request failed, or the
\* answer has no item): an error is logged, and `continue` goes to the next
\* iteration of the for loop without the delay.
SkipVideo(shown) ==
    /\ AtLoopTop(urls, urlIndex + 1, allComments, shown)
    /\ UNCHANGED <<videoTitle, pageToken, pageCount>>

\* Lines 150-177: the answer to the request for the video's details.
RecvDetails(response) ==
    /\ pc = "awaitDetails"
    /\ UNCHANGED <<backend, fnCall, script, inputVars, aborted, allComments, seenCommentIds, delivered,
                   abortedWhen>>
    /\ lastResponse' = Response("video-details", urlIndex, 0, response.kind,
                                NoToken, "done", FALSE)
    /\ IF response.kind \in {"error", "noItems"}
       THEN SkipVideo(comments)
       ELSE IF response.kind = "noSnippet"
       THEN \* lines 161-162: a TypeError outside the inner try
            /\ ThrowWrapped(WrappedTypeError, comments)
            /\ UNCHANGED <<urlIndex, videoId, videoTitle, pageToken, pageCount,
                           lastRequest, ref>>
       ELSE /\ videoTitle' = response.title
            /\ pageToken' = NoToken
            /\ pageCount' = 0
            /\ AtPageTop(NoToken, comments)
            /\ UNCHANGED <<urlIndex, videoId>>

\* A variant of CommentOf that names the first reference of the list as
\* the record's video.
CommentOfFirstReference(thread, url, title) ==
    [id |-> thread.id, author |-> thread.author, text |-> thread.text,
     videoUrl |-> urls[1], videoTitle |-> title,
     publishedAt |-> IsoDate(thread.publishedAt),
     likeCount |-> thread.likeCount]

\* Lines 198-206: the record built from a thread.
CommentOf(thread, url, title) ==
    [id |-> thread.id, author |-> thread.author, text |-> thread.text,
     videoUrl |-> url, videoTitle |-> title,
     publishedAt |-> IsoDate(thread.publishedAt),
     likeCount |-> thread.likeCount]

\* A variant of FilteredOut that lets every thread pass.
NeverFilteredOut(thread, start, end, kw, zone) == FALSE

\* Lines 189-192: the thread fails the date test or the keyword test.
FilteredOut(thread, start, end, kw, zone) ==
    \/ OutsideDateRange(thread.publishedAt, start, end, zone)
    \/ kw # <<>> /\ ~KeywordMatch(thread.text, kw)

\* A variant of IsDuplicate that never finds a duplicate.
NeverDuplicate(thread, seen) == FALSE

\* Line 195: the thread's id was accepted before.
IsDuplicate(thread, seen) == thread.id \in seen

\* Lines 180-207: the loop over the threads of a page, from the accumulator
\* acc and the seen-set seen.  duplicates: line 195 has discarded a thread
\* (dup: it had before this thread).  threw: a thread ended the loop with an error
\* (line 181, a record without snippet; line 204, toISOString of an Invalid
\* Date, after line 197 has added the id).
\* A variant of ProcessThreads that puts a new record in front of the
\* accumulator.
RECURSIVE ProcessThreadsNewestFirst(_, _, _, _, _, _)
ProcessThreadsNewestFirst(threads, acc, seen, url, title, dup) ==
    IF threads = <<>>
    THEN [all |-> acc, seen |-> seen, threw |-> FALSE, duplicates |-> dup]
    ELSE LET thread == Head(threads)
         IN  IF ~thread.wellFormed \/ thread.publishedAt = NaN
             THEN [all |-> acc, seen |-> seen, threw |-> TRUE, duplicates |-> dup]
             ELSE IF \/ FilteredOut(thread, startDate, endDate, keywords, tz)
                     \/ IsDuplicate(thread, seen)
             THEN ProcessThreadsNewestFirst(Tail(threads), acc, seen, url,
                                            title, dup)
             ELSE ProcessThreadsNewestFirst(Tail(threads),
                        <<CommentOf(thread, url, title)>> \o acc,
                        seen \cup {thread.id}, url, title, dup)

RECURSIVE ProcessThreads(_, _, _, _, _, _)
ProcessThreads(threads, acc, seen, url, title, dup) ==
    IF threads = <<>>
    THEN [all |-> acc, seen |-> seen, threw |-> FALSE, duplicates |-> dup]
    ELSE LET thread == Head(threads)
         IN  IF ~thread.wellFormed
             THEN [all |-> acc, seen |-> seen, threw |-> TRUE, duplicates |-> dup]
             ELSE IF FilteredOut(thread, startDate, endDate, keywords, tz)
             THEN ProcessThreads(Tail(threads), acc, seen, url, title, dup)
             ELSE IF IsDuplicate(thread, seen)
             THEN ProcessThreads(Tail(threads), acc, seen, url, title, TRUE)
             ELSE IF thread.publishedAt = NaN
             THEN [all |-> acc, seen |-> seen \cup {thread.id}, threw |-> TRUE,
                   duplicates |-> dup]
             ELSE ProcessThreads(Tail(threads),
                                 Append(acc, CommentOf(thread, url, title)),
                                 seen \cup {thread.id}, url, title, dup)

\* A variant of Snapshot that hands over the newest record only.
SnapshotOfNewest(all) == IF all = <<>> THEN all ELSE <<all[Len(all)]>>

\* Line 211: [...allComments], the snapshot handed to onProgress.
Snapshot(all) == all

\* A variant of Held for a callback that is handed the accumulator
\* itself: what it holds is the accumulator as it is now.
HeldAliased(snapshots, acc) == [i \in DOMAIN snapshots |-> acc]

\* Line 211: the spread makes a new array for each call, so the snapshots
\* that the caller holds are what they were when the accumulator is acc.
Held(snapshots, acc) == snapshots

\* A variant of MorePages without the ceiling.
MorePagesWithoutCeiling(token, count) == token # NoToken

\* Line 231: the condition of the do loop.
MorePages(token, count) == token # NoToken /\ count < MAX_PAGES

\* A variant of CatchPageError that lets the error end the run.
CatchPageErrorRethrows(shown) ==
    /\ ThrowWrapped(WrappedTypeError, shown)
    /\ UNCHANGED <<pageToken, pageCount, lastRequest>>

\* Lines 222-229: the catch clause of the inner try, for an error with a
\* message: a warning or an error is logged, and the do loop is left.
CatchPageError(shown) ==
    /\ AfterPaging(shown)
    /\ UNCHANGED <<pageToken, pageCount, lastRequest>>

\* Lines 177-236: the answer to the request for a page of comments; cb is
\* what the caller's onProgress does if it is called.
RecvComments(response, cb) ==
    /\ pc = "awaitComments"
    /\ UNCHANGED <<backend, fnCall, script, inputVars, aborted, urlIndex, videoId, videoTitle, abortedWhen>>
    /\ IF response.kind \in {"error", "commentsDisabled"}
       THEN /\ CatchPageError(comments)
            /\ lastResponse' = Response("comments", urlIndex, ref.pageRequests,
                                        response.kind, NoToken, "done", FALSE)
            /\ UNCHANGED <<allComments, seenCommentIds, delivered, ref>>
       ELSE
        LET r == ProcessThreads(response.items, allComments, seenCommentIds,
                                urls[urlIndex], videoTitle, FALSE)
            called == ~r.threw /\ onProgress # "undefined"
            result == IF onProgress = "callback" THEN cb ELSE "returns"
            shown  == IF called /\ onProgress = "setComments"
                      THEN Snapshot(r.all) ELSE comments
            handled == IF r.threw THEN "recordError"
                       ELSE IF called /\ result # "returns" THEN "callbackError"
                       ELSE "done"
        IN  /\ allComments' = r.all
            /\ seenCommentIds' = r.seen
            /\ delivered' = IF called THEN <<Snapshot(r.all)>>
                          ELSE Held(delivered, r.all)
            /\ lastResponse' = Response("comments", urlIndex, ref.pageRequests,
                                        "ok", response.nextPageToken, handled,
                                        r.duplicates)
            /\ IF r.threw
               THEN /\ CatchPageError(shown)
                    /\ UNCHANGED ref
               ELSE IF called /\ result = "throwsError"
               THEN /\ CatchPageError(shown)
                    /\ ref' = [ref EXCEPT !.progressCalls = @ + 1]
               ELSE IF called /\ result = "throwsValue"
               THEN \* line 223: what was thrown has no message; the
                    \* catch clause itself throws a TypeError
                    /\ ThrowWrapped(WrappedTypeError, shown)
                    /\ ref' = [ref EXCEPT !.progressCalls = @ + 1]
                    /\ UNCHANGED <<pageToken, pageCount, lastRequest>>
               ELSE /\ pageToken' = response.nextPageToken
                    /\ pageCount' = pageCount + 1
                    /\ ref' = [ref EXCEPT !.progressCalls =
                                            IF called THEN @ + 1 ELSE @]
                    /\ UNCHANGED lastRequest
                    /\ IF MorePages(response.nextPageToken, pageCount + 1)
                       THEN \* lines 218-220: the delay between pages
                            /\ pc' = "delayPage"
                            /\ GoOn(shown)
                       ELSE AfterPaging(shown)

\* A variant of DelayPage that asks for the next page without the cursor.
DelayPageWithoutCursor ==
    /\ pc = "delayPage"
    /\ UNCHANGED <<backend, fnCall, script, inputVars, aborted, localVars, lastResponse, delivered,
                   abortedWhen>>
    /\ IF MorePages(pageToken, pageCount)
       THEN AtPageTop(NoToken, comments)
       ELSE /\ AfterPaging(comments)
            /\ UNCHANGED <<lastRequest, ref>>

\* Lines 219 and 231, 169-177: the delay between pages is over; the
\* condition of the do loop, and the next iteration.
DelayPage ==
    /\ pc = "delayPage"
    /\ UNCHANGED <<backend, fnCall, script, inputVars, aborted, localVars, lastResponse, delivered,
                   abortedWhen>>
    /\ IF MorePages(pageToken, pageCount)
       THEN AtPageTop(pageToken, comments)
       ELSE /\ AfterPaging(comments)
            /\ UNCHANGED <<lastRequest, ref>>

\* A variant of DelayVideo that goes on two references further.
DelayVideoSkipsOne ==
    /\ pc = "delayVideo"
    /\ UNCHANGED <<backend, fnCall, script, inputVars, aborted, videoTitle, pageToken, pageCount,
                   allComments, seenCommentIds, lastResponse, delivered,
                   abortedWhen>>
    /\ AtLoopTop(urls, urlIndex + 2, allComments, comments)

\* Lines 236 and 131-150: the delay between videos is over; the next
\* iteration of the for loop.
DelayVideo ==
    /\ pc = "delayVideo"
    /\ UNCHANGED <<backend, fnCall, script, inputVars, aborted, videoTitle, pageToken, pageCount,
                   allComments, seenCommentIds, lastResponse, delivered,
                   abortedWhen>>
    /\ AtLoopTop(urls, urlIndex + 1, allComments, comments)

\* The run is suspended at an await: the only points at which anything
\* else, such as the handler that aborts the signal, runs.
Suspended == pc \in {"awaitDetails", "awaitComments", "delayPage", "delayVideo"}

\* When the signal is aborted, in terms of what the run has done so far.
AbortPoint ==
    IF pc = "start" THEN "beforeCall"
    ELSE IF lastResponse = NoResponse THEN "beforeFirstResponse"
    ELSE IF delivered = <<>> THEN "beforeFirstProgress"
    ELSE "afterProgress"

\* The holder of the AbortController aborts it while the run is suspended.
Abort ==
    /\ Suspended
    /\ ~aborted
    /\ aborted' = TRUE
    /\ abortedWhen' = AbortPoint
    /\ UNCHANGED <<backend, fnCall, script, inputVars, pc, localVars, outcome, lastRequest, lastResponse,
                   ref, delivered, appVars>>

\* ------------------------------------------------------------------------
\* The service, called by any caller
\* ------------------------------------------------------------------------

\* The state of a call that is about to start.
FreshRun ==
    /\ pc = "start"
    /\ urlIndex = 1
    /\ videoId = Null
    /\ videoTitle = ""
    /\ pageToken = NoToken
    /\ pageCount = 0
    /\ allComments = <<>>
    /\ seenCommentIds = {}
    /\ outcome = [kind |-> "pending"]
    /\ lastRequest = NoRequest
    /\ lastResponse = NoResponse
    /\ ref = NewRef(0)
    /\ delivered = <<>>

\* App.tsx, lines 9-17: the initial state of the component.
AppInitial ==
    /\ comments = <<>>
    /\ isLoading = FALSE
    /\ error = NoError
    /\ abortController = NoController

\* No function is called on its own.
NoFnCall == [fn |-> "none"]

\* No request to the backend.
NoBackend == [route |-> "none"]

\* The remote source follows no script.
NoScript == <<>>

\* A caller is about to call the service with a callback, with a signal
\* that it may have aborted already.
Init ==
    /\ urls \in UrlLists
    /\ \E d \in DatePool : startDate = d[1] /\ endDate = d[2]
    /\ keywords \in KeywordPool
    /\ onProgress = "callback"
    /\ tz \in TimeZonePool
    /\ aborted \in BOOLEAN
    /\ abortedWhen = IF aborted THEN "beforeCall" ELSE "never"
    /\ FreshRun
    /\ AppInitial
    /\ fnCall = NoFnCall
    /\ backend = NoBackend
    /\ script = NoScript

Next ==
    \/ Call
    \/ \E response \in DetailsResponses : RecvDetails(response)
    \/ \E response \in CommentsResponses, cb \in CallbackOutcomes :
            RecvComments(response, cb)
    \/ DelayPage
    \/ DelayVideo
    \/ Abort

Spec == Init /\ [][Next]_vars

\* ------------------------------------------------------------------------
\* The App component (App.tsx)
\* ------------------------------------------------------------------------

\* '  https://www.youtube.com/watch?v=dQw4w9WgXcQ ', a line with blanks
\* around the reference
PaddedWatchUrlA == <<" ", " ">> \o WatchUrlA \o <<" ">>

\* A line of blanks.
BlankLine == <<" ", " ">>

\* An empty date field.
NoDate == 0

\* What the user has entered when the Extract button is clicked: the lines
\* of the URL field (videoUrls.split('\n')), the two date fields and the
\* keyword field.
FormInput(lines, start, end, kw) ==
    [lines |-> lines, startDate |-> start, endDate |-> end, keywords |-> kw]

FormInputs ==
    { FormInput(<<PaddedWatchUrlA>>, 1, 2, KeywordsGreatOrBad),
      FormInput(<<BlankLine, WatchUrlA, NotAUrl>>, 2, 2, KeywordsGreatOrBad),
      FormInput(<<NotAUrl>>, 1, 2, KeywordsGreatOrBad),
      FormInput(<<BlankLine>>, 1, 2, KeywordsGreatOrBad),
      FormInput(<<>>, 1, 2, KeywordsGreatOrBad),
      FormInput(<<WatchUrlA>>, NoDate, 2, KeywordsGreatOrBad),
      FormInput(<<WatchUrlA>>, 1, NoDate, KeywordsGreatOrBad),
      FormInput(<<WatchUrlA>>, 2, 1, KeywordsGreatOrBad) }

\* Line 20: videoUrls.split('\n').map(url => url.trim()).filter(url => url)
UrlsOfLines(lines) == FilterNonEmpty(MapTrim(lines))

\* A variant of ValidationError without the test of line 25.
ValidationErrorWithoutOrder(input) ==
    IF \/ Len(UrlsOfLines(input.lines)) = 0
       \/ input.startDate = NoDate
       \/ input.endDate = NoDate
    THEN <<"Please provide at least one YouTube URL and select a start and end date.">>
    ELSE NoError

\* Lines 21 and 25: the validation of the form; the error it sets, or
\* NoError.
ValidationError(input) ==
    IF \/ Len(UrlsOfLines(input.lines)) = 0
       \/ input.startDate = NoDate
       \/ input.endDate = NoDate
    THEN <<"Please provide at least one YouTube URL and select a start and end date.">>
    ELSE IF DateOf(input.startDate) > DateOf(input.endDate)
    THEN <<"Start date cannot be after the end date.">>
    ELSE NoError

\* No run is in flight.
Idle == pc \in {"idle", "done"}

\* Lines 19-48: a click on Extract, which is disabled while isLoading, up to
\* the call of extractCommentsFromVideos with a new controller's signal.
handleExtractComments(input) ==
    /\ Idle
    /\ ~isLoading
    /\ UNCHANGED <<backend, fnCall, script, tz>>
    /\ IF ValidationError(input) # NoError
       THEN /\ error' = ValidationError(input)
            /\ UNCHANGED <<urls, startDate, endDate, keywords, onProgress,
                           aborted, pc, localVars, outcome, observedVars,
                           comments, isLoading, abortController>>
       ELSE /\ error' = NoError
            /\ isLoading' = TRUE
            /\ comments' = <<>>
            /\ abortController' = "controller"
            /\ aborted' = FALSE
            /\ abortedWhen' = "never"
            /\ urls' = UrlsOfLines(input.lines)
            /\ startDate' = input.startDate
            /\ endDate' = input.endDate
            /\ keywords' = input.keywords
            /\ onProgress' = "setComments"
            /\ pc' = "start"
            /\ urlIndex' = 1
            /\ videoId' = Null
            /\ videoTitle' = ""
            /\ pageToken' = NoToken
            /\ pageCount' = 0
            /\ allComments' = <<>>
            /\ seenCommentIds' = {}
            /\ outcome' = [kind |-> "pending"]
            /\ lastRequest' = NoRequest
            /\ lastResponse' = NoResponse
            /\ ref' = NewRef(0)
            /\ delivered' = <<>>

\* Lines 62-67: a click on Cancel, which is shown while isLoading.
handleCancelExtraction ==
    /\ isLoading
    /\ Suspended
    /\ abortController # NoController
    /\ aborted' = TRUE
    /\ abortedWhen' = AbortPoint
    /\ abortController' = NoController
    /\ UNCHANGED <<backend, fnCall, script, inputVars, pc, localVars, outcome, lastRequest, lastResponse,
                   ref, delivered, comments, isLoading, error>>

\* The App before the first click; no call has been made.
InitApp ==
    /\ AppInitial
    /\ fnCall = NoFnCall
    /\ backend = NoBackend
    /\ script = NoScript
    /\ urls = <<>>
    /\ startDate = NoDate
    /\ endDate = NoDate
    /\ keywords = <<>>
    /\ onProgress = "setComments"
    /\ tz \in TimeZonePool
    /\ aborted = FALSE
    /\ abortedWhen = "never"
    /\ pc = "idle"
    /\ urlIndex = 1
    /\ videoId = Null
    /\ videoTitle = ""
    /\ pageToken = NoToken
    /\ pageCount = 0
    /\ allComments = <<>>
    /\ seenCommentIds = {}
    /\ outcome = [kind |-> "pending"]
    /\ lastRequest = NoRequest
    /\ lastResponse = NoResponse
    /\ ref = NewRef(0)
    /\ delivered = <<>>

NextApp ==
    \/ \E input \in FormInputs : handleExtractComments(input)
    \/ handleCancelExtraction
    \/ Call
    \/ \E response \in DetailsResponses : RecvDetails(response)
    \/ \E response \in CommentsResponses, cb \in CallbackOutcomes :
            RecvComments(response, cb)
    \/ DelayPage
    \/ DelayVideo

SpecApp == InitApp /\ [][NextApp]_vars

\* ------------------------------------------------------------------------
\* Properties of a run
\* ------------------------------------------------------------------------

\* s is a prefix of t: the same records in the same order, and t may have
\* more.
IsPrefix(s, t) == Len(s) <= Len(t) /\ \A i \in 1..Len(s) : s[i] = t[i]

\* No two records of all have the same id.
UniqueIds(all) ==
    \A i, j \in 1..Len(all) : all[i].id = all[j].id => i = j

\* The step is the run's handling of the answer to a request for a page.
PageAnswered == pc = "awaitComments" /\ pc' # "awaitComments"

\* The step is the run's handling of the answer to a request for details.
DetailsAnswered == pc = "awaitDetails" /\ pc' # "awaitDetails"

\* The request for a page failed.
FetchFailed(response) ==
    response.op = "comments" /\ response.kind \in {"error", "commentsDisabled"}

\* The run has ended with the error of one of the cancellation checks, as
\* thrown (line 127) or as rethrown by the catch clause (line 242).
EndedCancelled ==
    /\ pc = "done"
    /\ outcome.kind = "threw"
    /\ outcome.message \in {CancelledMessage, WrappedError(CancelledMessage)}

\* C1: in every snapshot handed to onProgress and in the value returned, no
\* two records have the same id; a thread whose id was accepted before is
\* discarded, and the records accepted before stay where they are (the
\* accumulator only grows at its end).
C1_UniqueIds ==
    [][ /\ UniqueIds(allComments')
        /\ delivered' # <<>> => UniqueIds(delivered'[1])
        /\ outcome'.kind = "returned" => UniqueIds(outcome'.value)
        /\ IsPrefix(allComments, allComments')
        /\ {allComments'[i].id : i \in 1..Len(allComments')} \subseteq seenCommentIds'
      ]_vars

\* C1: a run has returned two records, and has discarded a thread of the
\* last page of its second reference as a duplicate.
C1_Witness ==
    /\ pc = "done"
    /\ outcome.kind = "returned"
    /\ Len(outcome.value) = 2
    /\ lastResponse.duplicates
    /\ lastResponse.index = 2
    /\ delivered = <<outcome.value>>

\* C2: each snapshot handed to onProgress has the one before it as a
\* prefix.
C2_SnapshotsGrow ==
    [][ (delivered # <<>> /\ delivered' # delivered)
            => IsPrefix(delivered[1], delivered'[1]) ]_vars

\* C2: a snapshot of two records has been handed over, on the second page
\* of the second reference or later.
C2_Witness ==
    /\ delivered # <<>>
    /\ Len(delivered[1]) = 2
    /\ ref.index = 2
    /\ ref.progressCalls >= 2

\* C3: a run ends with a throw only if the signal was aborted.
C3_ThrowsOnlyIfCancelled ==
    (pc = "done" /\ outcome.kind = "threw") => aborted

\* C4: if the signal is aborted after a progress call, the last snapshot
\* handed over is the accumulator at that moment, and the run ends with the
\* cancellation error and not with a return.
C4_CancelAfterProgress ==
    [][ /\ (~aborted /\ aborted' /\ delivered # <<>>) => delivered[1] = allComments
        /\ (pc # "done" /\ pc' = "done" /\ abortedWhen' = "afterProgress")
              => EndedCancelled'
      ]_vars

\* C5: if the signal is aborted before the answer to the first request,
\* the run on a list that is not empty ends with the cancellation error,
\* and onProgress has not been called.
C5_CancelBeforeFirstAnswer ==
    (/\ pc = "done"
     /\ urls # <<>>
     /\ abortedWhen \in {"beforeCall", "beforeFirstResponse"})
        => (EndedCancelled /\ delivered = <<>>)

\* C6: wherever the cancellation is observed, the error that reaches the
\* App has the message 'Extraction cancelled', and the App's error state
\* becomes 'Extraction cancelled by user.'.
C6_CancelledMessage ==
    [][ (pc # "done" /\ EndedCancelled')
            => /\ outcome'.message = CancelledMessage
               /\ error' = <<"Extraction cancelled by user.">>
      ]_vars

\* The step is the end of the delay that follows a failed page request.
AfterFailedPage ==
    pc = "delayVideo" /\ pc' # "delayVideo" /\ FetchFailed(lastResponse)

\* The step takes the for loop past the reference at urlIndex without
\* ending the run for anything but a cancellation: to a request for the
\* details of a later reference, or to the end of the list.
GoesOnToNextReference ==
    /\ urlIndex' > urlIndex
    /\ lastRequest' # lastRequest
          => /\ lastRequest'.op = "video-details"
             /\ lastRequest'.index > urlIndex
             /\ pc' = "awaitDetails"
    /\ outcome'.kind = "threw" => (aborted /\ EndedCancelled')
    /\ outcome'.kind = "returned" => outcome'.value = allComments

\* C7: when a page request for a reference fails, no other page of that
\* reference is asked for, the accumulator and the snapshots stay as they
\* are, and after the delay the run goes on with the next reference; it
\* returns the accumulator if the reference was the last one.
C7_PageFailure ==
    [][ /\ (PageAnswered /\ FetchFailed(lastResponse'))
              => /\ allComments' = allComments
                 /\ delivered' = delivered
                 /\ pc' = "delayVideo"
                 /\ ref' = ref
                 /\ lastRequest' = lastRequest
        /\ AfterFailedPage
              => /\ allComments' = allComments
                 /\ GoesOnToNextReference
                 /\ urlIndex = Len(urls)
                       => outcome' = [kind |-> "returned", value |-> allComments]
      ]_vars

\* C7: the second page of the first reference has failed after the first
\* page gave a record, and the run has asked for the second reference.
C7_Witness ==
    /\ pc = "awaitDetails"
    /\ urlIndex = 2
    /\ FetchFailed(lastResponse)
    /\ lastResponse.index = 1
    /\ lastResponse.page = 2
    /\ Len(allComments) >= 1

\* The details were not to be had: the request failed or gave no item.
DetailsMissing(response) ==
    response.op = "video-details" /\ response.kind \in {"error", "noItems"}

\* C8: when the details of a reference are not to be had, the accumulator
\* and the snapshots stay as they are, the run goes on with the next
\* reference, and no page is asked for: a page is asked for only after an
\* answer for the same reference that gave details or a page.
C8_DetailsFailure ==
    [][ /\ (DetailsAnswered /\ DetailsMissing(lastResponse'))
              => /\ allComments' = allComments
                 /\ delivered' = delivered
                 /\ ref.pageRequests = 0 /\ ref.progressCalls = 0
                 /\ ref' \in {ref, NewRef(urlIndex')}
                 /\ GoesOnToNextReference
        /\ (lastRequest' # lastRequest /\ lastRequest'.op = "comments")
              => /\ lastResponse'.index = lastRequest'.index
                 /\ lastResponse'.kind = "ok"
      ]_vars

\* C8: the details of the first reference were not to be had, and the run
\* has asked for the second reference.
C8_Witness ==
    /\ pc = "awaitDetails"
    /\ urlIndex = 2
    /\ DetailsMissing(lastResponse)
    /\ lastResponse.index = 1

\* No reference of the list resolves to an identifier.
AllInvalid == urls # <<>> /\ \A i \in 1..Len(urls) : VideoIdOf(urls[i]) = Null

\* Requests, records and progress calls are for references that resolve
\* only, and the step over references that do not resolve changes neither
\* the accumulator nor the snapshots and ends at the first one that
\* resolves.
InvalidSkipped ==
    /\ lastRequest' # NoRequest
          => /\ VideoIdOf(urls[lastRequest'.index]) # Null
             /\ lastRequest'.videoId = VideoIdOf(urls[lastRequest'.index])
    /\ ref'.index # 0 => VideoIdOf(urls[ref'.index]) # Null
    /\ \A i \in 1..Len(allComments') : VideoIdOf(allComments'[i].videoUrl) # Null
    /\ (pc = "start" \/ urlIndex' # urlIndex)
          => /\ allComments' = allComments
             /\ delivered' = delivered
             /\ pc' = "awaitDetails"
                   => \A i \in (IF pc = "start" THEN 1 ELSE urlIndex + 1)
                                  .. (urlIndex' - 1) :
                            VideoIdOf(urls[i]) = Null

\* C9 as stated: references that do not resolve are skipped, and a run on
\* references none of which resolves returns an empty collection, with no
\* request and no progress call.
C9_AllInvalidReturns ==
    [][ /\ InvalidSkipped
        /\ (AllInvalid /\ pc' = "done")
              => /\ outcome' = [kind |-> "returned", value |-> <<>>]
                 /\ lastRequest' = NoRequest
                 /\ delivered' = <<>>
      ]_vars

\* C9: references that do not resolve are skipped, and a run on
\* references none of which resolves makes no request and no progress
\* call, and returns an empty collection unless the signal was aborted
\* before the call, in which case it throws the cancellation error.
C9_InvalidSkipped ==
    [][ /\ InvalidSkipped
        /\ (AllInvalid /\ pc' = "done")
              => /\ lastRequest' = NoRequest
                 /\ delivered' = <<>>
                 /\ IF abortedWhen' = "beforeCall"
                    THEN outcome' = [kind |-> "threw", message |-> CancelledMessage]
                    ELSE outcome' = [kind |-> "returned", value |-> <<>>]
      ]_vars

\* C9: a run on two references that do not resolve has returned.
C9_Witness ==
    /\ urls = <<NotAUrl, NotAUrl>>
    /\ pc = "done"
    /\ outcome = [kind |-> "returned", value |-> <<>>]
    /\ lastRequest = NoRequest

\* At most MAX_PAGES pages are asked for per reference, and after the
\* page at the ceiling the run goes on to the delay between videos.
CeilingKept ==
    /\ ref'.pageRequests <= MAX_PAGES
    /\ (/\ PageAnswered
        /\ lastResponse'.kind = "ok"
        /\ lastResponse'.handled = "done"
        /\ ref.pageRequests = MAX_PAGES) => pc' = "delayVideo"

\* The page that has been answered had no cursor, was the one at the
\* ceiling, or was not to be had.
StopAsStated ==
    \/ FetchFailed(lastResponse')
    \/ lastResponse'.cursor = NoToken
    \/ ref.pageRequests = MAX_PAGES

C11_ProgressPerPage ==
    [][ (PageAnswered /\ lastResponse'.kind = "ok")
            => /\ ref'.progressCalls = ref.progressCalls + 1
               /\ delivered' = <<allComments'>>
               /\ lastRequest' = lastRequest
      ]_vars

\* C12: a run that returns after a progress call returns the records of
\* the last snapshot, in the same order.
C12_ReturnsLastSnapshot ==
    (pc = "done" /\ outcome.kind = "returned" /\ delivered # <<>>)
        => outcome.value = delivered[1]

\* ------------------------------------------------------------------------
\* Runs on one reference, in several time zones and with and without
\* keywords
\* ------------------------------------------------------------------------

\* The offsets of local time from UTC, in hours, of these runs.
FilterZonePool == {0 - 8, 0, 9}

FilterDatePool == {<<1, 2>>, <<2, 2>>}

\* keywords = '' (the default of the parameter) and 'great, bad'
FilterKeywordPool == {<<>>, KeywordsGreatOrBad}

InitFilters ==
    /\ urls = <<WatchUrlA>>
    /\ \E d \in FilterDatePool : startDate = d[1] /\ endDate = d[2]
    /\ keywords \in FilterKeywordPool
    /\ onProgress = "callback"
    /\ tz \in FilterZonePool
    /\ aborted = FALSE
    /\ abortedWhen = "never"
    /\ FreshRun
    /\ AppInitial
    /\ fnCall = NoFnCall
    /\ backend = NoBackend
    /\ script = NoScript

SpecFilters == InitFilters /\ [][Next]_vars

\* The record's calendar date is within the bounds of the run, and its
\* text matches the keywords of the run if there are any.
PassesBoth(record) ==
    /\ startDate <= record.publishedAt
    /\ record.publishedAt <= endDate
    /\ keywords # <<>> => KeywordMatch(record.text, keywords)

AllPassBoth(all) == \A i \in 1..Len(all) : PassesBoth(all[i])

\* The thread is a record with a snippet and a date.
WellFormed(thread) == thread.wellFormed /\ thread.publishedAt # NaN

\* What the processing of page makes of the accumulator of the run.
Processed(page) ==
    ProcessThreads(page, allComments, seenCommentIds, urls[urlIndex],
                   videoTitle, FALSE)

\* C13: every record of the accumulator, of a snapshot and of the value
\* returned has a calendar date within the bounds and a text that matches
\* the keywords, if there are any; and when the run awaits a page, whatever
\* page of well-formed threads comes is processed without an error, and
\* adds no thread that fails a test.
C13_Filters ==
    /\ AllPassBoth(allComments)
    /\ delivered # <<>> => AllPassBoth(delivered[1])
    /\ outcome.kind = "returned" => AllPassBoth(outcome.value)
    /\ pc = "awaitComments"
          => \A page \in PagePool :
                (\A i \in 1..Len(page) : WellFormed(page[i]))
                    => /\ ~Processed(page).threw
                       /\ IsPrefix(allComments, Processed(page).all)
                       /\ AllPassBoth(Processed(page).all)

\* C13: in a zone that is not UTC, the run has accepted a record and
\* awaits a page; the page may hold a thread that fails a test before one
\* that passes, and its processing adds the second one only.
C13_Witness ==
    /\ pc = "awaitComments"
    /\ tz # 0
    /\ Len(allComments) = 1
    /\ delivered = <<allComments>>
    /\ \E page \in PagePool :
          /\ Len(page) = 2
          /\ WellFormed(page[1])
          /\ FilteredOut(page[1], startDate, endDate, keywords, tz)
          /\ ~Processed(page).threw
          /\ Len(Processed(page).all) = 2
          /\ Processed(page).all[2].id = page[2].id

\* ------------------------------------------------------------------------
\* The functions of the service, each called on its own
\* ------------------------------------------------------------------------

\* No run and no App: the variables of the run and of the App are at rest.
NoRun ==
    /\ AppInitial
    /\ urls = <<>>
    /\ startDate = NoDate
    /\ endDate = NoDate
    /\ keywords = <<>>
    /\ onProgress = "undefined"
    /\ tz = 0
    /\ aborted = FALSE
    /\ abortedWhen = "never"
    /\ pc = "idle"
    /\ urlIndex = 1
    /\ videoId = Null
    /\ videoTitle = ""
    /\ pageToken = NoToken
    /\ pageCount = 0
    /\ allComments = <<>>
    /\ seenCommentIds = {}
    /\ outcome = [kind |-> "pending"]
    /\ lastRequest = NoRequest
    /\ lastResponse = NoResponse
    /\ ref = NewRef(0)
    /\ delivered = <<>>
    /\ script = NoScript

runVars == <<inputVars, aborted, pc, localVars, outcome, observedVars, appVars,
             script>>

\* The offsets of local time from UTC, in hours, of the date tests.
DateZonePool == {0 - 12, 0 - 8, 0 - 5, 0, 1, 5, 9, 14}

\* The timestamps of the date tests: the first instant, noon and the last
\* instant of the days 0 to 3.
DateInstantPool ==
    {day * MsPerDay + time : day \in 0..3,
                             time \in {0, 12 * MsPerHour, MsPerDay - 1}}

\* The bounds of the date tests: startDate <= endDate, as the App ensures.
DateRangePool == {<<1, 1>>, <<1, 2>>, <<2, 2>>}

\* Lines 182-189 for one thread: the date test on the timestamp
\* publishedAt, between the calendar dates start and end, in a process
\* whose local time is UTC + zone hours.
DateTestCalls ==
    {[fn |-> "dateTest", publishedAt |-> instant, startDate |-> range[1],
      endDate |-> range[2], zone |-> zone, done |-> FALSE, result |-> FALSE] :
        instant \in DateInstantPool, range \in DateRangePool,
        zone \in DateZonePool}

InitDates == NoRun /\ fnCall \in DateTestCalls /\ backend = NoBackend

\* Line 189: the thread goes on (result TRUE) or is skipped by `continue`.
DateTest ==
    /\ fnCall.fn = "dateTest"
    /\ ~fnCall.done
    /\ fnCall' = [fnCall EXCEPT
                    !.done = TRUE,
                    !.result = ~OutsideDateRange(fnCall.publishedAt,
                                                 fnCall.startDate,
                                                 fnCall.endDate, fnCall.zone)]
    /\ UNCHANGED <<runVars, backend>>

NextDates == DateTest

SpecDates == InitDates /\ [][NextDates]_vars

\* C14: a timestamp whose calendar date (line 204) is within the bounds
\* passes the date test, in every time zone.
C14_InclusiveDays ==
    (/\ fnCall.fn = "dateTest"
     /\ fnCall.done
     /\ fnCall.startDate <= IsoDate(fnCall.publishedAt)
     /\ IsoDate(fnCall.publishedAt) <= fnCall.endDate)
        => fnCall.result

\* The run is suspended on a request to the backend.
Awaiting(at) == at \in {"awaitDetails", "awaitComments"}

\* The step sends a request to the backend.
RequestIssued ==
    /\ Awaiting(pc')
    /\ pc' # pc \/ lastRequest' # lastRequest \/ lastResponse' # lastResponse

\* The references from index i to index j do not resolve.
NoneResolves(i, j) == \A k \in i..j : VideoIdOf(urls[k]) = Null

\* C15: a request is sent only when no other is in flight (by a step from
\* the start or a delay, or by the step that handles the answer to the
\* request before); the requests follow the order of the references; the
\* details of a reference are asked for once, for the first reference
\* after the one before that resolves; a page is asked for only after the
\* details of the same reference have come, or the page before of the same
\* reference has been processed to its end; and a run that returns has
\* asked for every reference that resolves.
C15_Serialized ==
    [][ /\ (RequestIssued /\ Awaiting(pc))
              => /\ lastResponse'.op = lastRequest.op
                 /\ lastResponse'.index = lastRequest.index
                 /\ lastRequest.op = "comments"
                       => lastResponse'.page = ref.pageRequests
        /\ (RequestIssued /\ lastRequest # NoRequest)
              => lastRequest'.index >= lastRequest.index
        /\ (RequestIssued /\ lastRequest'.op = "video-details")
              => /\ pc' = "awaitDetails"
                 /\ lastRequest'.index = urlIndex'
                 /\ IF lastRequest = NoRequest
                    THEN NoneResolves(1, lastRequest'.index - 1)
                    ELSE /\ lastRequest'.index > lastRequest.index
                         /\ NoneResolves(lastRequest.index + 1,
                                         lastRequest'.index - 1)
                 /\ ref' = NewRef(lastRequest'.index)
        /\ (RequestIssued /\ lastRequest'.op = "comments")
              => /\ pc' = "awaitComments"
                 /\ lastRequest'.index = urlIndex'
                 /\ lastResponse'.index = lastRequest'.index
                 /\ lastResponse'.kind = "ok"
                 /\ lastResponse'.handled = "done"
                 /\ ref'.pageRequests = ref.pageRequests + 1
                 /\ IF pc = "awaitDetails"
                    THEN lastResponse'.op = "video-details" /\ ref.pageRequests = 0
                    ELSE /\ pc = "delayPage"
                         /\ lastResponse'.op = "comments"
                         /\ lastResponse'.page = ref.pageRequests
                         /\ lastRequest'.pageToken = lastResponse'.cursor
        /\ (pc # "done" /\ pc' = "done" /\ outcome'.kind = "returned")
              => NoneResolves(IF lastRequest' = NoRequest THEN 1
                              ELSE lastRequest'.index + 1, Len(urls))
      ]_vars

\* C15: the run has asked for the second page of its second reference,
\* after it has asked for pages of the first.
C15_Witness ==
    /\ pc = "awaitComments"
    /\ Len(urls) = 2
    /\ VideoIdOf(urls[1]) # Null
    /\ urlIndex = 2
    /\ ref = [index |-> 2, pageRequests |-> 2, progressCalls |-> 1]
    /\ Len(allComments) = 2
    /\ allComments[1].videoUrl = urls[1]
    /\ allComments[2].videoUrl = urls[2]

\* ------------------------------------------------------------------------
\* The run on a reference that resolves and one that does not, against a
\* remote source that serves three comments on two pages
\* ------------------------------------------------------------------------

\* Three threads that pass the date test for <<1, 2>> and match
\* 'great, bad'.
ScenarioThreads ==
    { Thread("c1", TRUE, 2 * MsPerDay + 12 * MsPerHour,
             <<"G","r","e","a","t"," ","v","i","d","e","o">>, 3),
      Thread("c2", TRUE, 1 * MsPerDay,
             <<"s","o"," ","b","a","d">>, 0),
      Thread("c7", TRUE, 1 * MsPerDay + 12 * MsPerHour,
             <<"s","o"," ","b","a","d">>, 2) }

\* The orders in which the three threads may come.
ScenarioOrders ==
    {order \in [1..Cardinality(ScenarioThreads) -> ScenarioThreads] :
        \A i, j \in DOMAIN order : order[i] = order[j] => i = j}

\* The scripts: the threads in some order, cut into two pages somewhere.
ScenarioScripts ==
    {<<SubSeq(order, 1, k), SubSeq(order, k + 1, Len(order))>> :
        order \in ScenarioOrders, k \in 0..Cardinality(ScenarioThreads)}

InitScenario ==
    /\ urls \in {<<WatchUrlA, NotAUrl>>, <<BareIdB, NotAUrl>>}
    /\ startDate = 1
    /\ endDate = 2
    /\ keywords \in FilterKeywordPool
    /\ onProgress = "callback"
    /\ tz = 0
    /\ aborted = FALSE
    /\ abortedWhen = "never"
    /\ FreshRun
    /\ AppInitial
    /\ fnCall = NoFnCall
    /\ backend = NoBackend
    /\ script \in ScenarioScripts

\* fetchVideoDetails answers with the video.
ScenarioDetails ==
    \E title \in TitlePool : RecvDetails([kind |-> "ok", title |-> title])

\* fetchComments answers with the next page of the script, with a cursor
\* unless the page is the last one; onProgress returns.
ScenarioPage ==
    /\ ref.pageRequests \in DOMAIN script
    /\ RecvComments([kind |-> "ok",
                     items |-> script[ref.pageRequests],
                     nextPageToken |-> IF ref.pageRequests < Len(script)
                                       THEN "T1" ELSE NoToken],
                    "returns")

NextScenario ==
    \/ Call
    \/ ScenarioDetails
    \/ ScenarioPage
    \/ DelayPage
    \/ DelayVideo

SpecScenario == InitScenario /\ [][NextScenario]_vars

\* The ids of the records or threads of all, in their order.
IdsOf(all) == [i \in 1..Len(all) |-> all[i].id]

\* C16: on [A, B] with A served as two pages of three passing comments
\* and B not resolving, the sizes of the snapshots never decrease, and the
\* run ends by returning the three records in the order in which the
\* pages held them, each with A as its video, after two progress calls
\* and without a request for B.
C16_Scenario ==
    [][ /\ (delivered # <<>> /\ delivered' # <<>>)
              => Len(delivered'[1]) >= Len(delivered[1])
        /\ pc' = "done"
              => /\ outcome'.kind = "returned"
                 /\ Len(outcome'.value) = 3
                 /\ IdsOf(outcome'.value) = IdsOf(script[1] \o script[2])
                 /\ \A i \in 1..Len(outcome'.value) :
                        outcome'.value[i].videoUrl = urls[1]
                 /\ delivered' = <<outcome'.value>>
                 /\ ref' = [index |-> 1, pageRequests |-> 2, progressCalls |-> 2]
                 /\ lastRequest'.index = 1
                 /\ urlIndex' = Len(urls) + 1
      ]_vars

\* C16: the run has returned; the first page held two of the comments.
C16_Witness ==
    /\ script # NoScript
    /\ Len(script[1]) = 2
    /\ pc = "done"
    /\ outcome.kind = "returned"
    /\ Len(outcome.value) = 3

\* ------------------------------------------------------------------------
\* extractVideoId on its own
\* ------------------------------------------------------------------------

\* /^[a-zA-Z0-9_-]{11}$/.test(videoId)
isValidVideoId(id) ==
    /\ Len(id) = VideoIdLength
    /\ \A i \in DOMAIN id : id[i] \in IdChars

SchemeWww == <<"h","t","t","p","s",":","/","/","w","w","w",".">>

SchemeBare == <<"h","t","t","p","s",":","/","/">>

\* The four forms of a reference to the video id.
WatchUrl(id) == SchemeWww \o WatchPrefix \o id

ShortUrl(id) == SchemeBare \o ShortPrefix \o id

EmbedUrl(id) == SchemeWww \o EmbedPrefix \o id

BareId(id) == id

FormsOf(id) == {WatchUrl(id), ShortUrl(id), EmbedUrl(id), BareId(id)}

\* Identifiers in canonical form.
CanonicalIdPool ==
    { <<"d","Q","w","4","w","9","W","g","X","c","Q">>,
      BareIdB,
      <<"a","-","b","_","c","1","D","2","e","3","F">> }

\* Strings that are not in canonical form: too short, too long, and with a
\* character outside the alphabet.
OtherIdPool ==
    { <<"a","b","c">>,
      <<"a","b","c","d","e","f","g","h","i","j","k","l">>,
      <<"a","b","c","!","e","f","g","h","i","j","k">> }

\* '&t=10s', '?t=10', '#x'
TrailingParts ==
    { <<"&","t","=","1","0","s">>,
      <<"?","t","=","1","0">>,
      <<"#","x">> }

\* Whitespace before and after a reference.
PaddingPool ==
    { <<<<>>, <<>>>>, <<<<" ">>, <<>>>>, <<<<>>, <<" ">>>>,
      <<<<" ">>, <<" ">>>>, <<<<>>, <<"\n">>>>, <<<<"\t">>, <<" ", " ">>>> }

\* The strings that extractVideoId is called with.
ResolverInputs ==
    {NotAUrl, <<>>}
    \cup { pad[1] \o form \o part \o pad[2] :
             form \in UNION {FormsOf(id) : id \in CanonicalIdPool \cup OtherIdPool},
             part \in TrailingParts \cup {<<>>},
             pad \in PaddingPool }

ResolverCalls ==
    { [fn |-> "extractVideoId", url |-> url, done |-> FALSE, result |-> Null] :
        url \in ResolverInputs }

InitResolver == NoRun /\ fnCall \in ResolverCalls /\ backend = NoBackend

\* extractVideoId(url) returns.
Resolve ==
    /\ fnCall.fn = "extractVideoId"
    /\ ~fnCall.done
    /\ fnCall' = [fnCall EXCEPT !.done = TRUE,
                                !.result = extractVideoId(fnCall.url)]
    /\ UNCHANGED <<runVars, backend>>

NextResolver == Resolve

SpecResolver == InitResolver /\ [][NextResolver]_vars

\* extractVideoId has returned result for url.
Resolved(url, result) ==
    /\ fnCall.fn = "extractVideoId"
    /\ fnCall.done
    /\ fnCall.url = url
    /\ fnCall.result = result

\* C17: a result of extractVideoId that is not null is an identifier in
\* canonical form: 11 characters, each of [A-Za-z0-9_-].
C17_CanonicalOrNull ==
    (fnCall.fn = "extractVideoId" /\ fnCall.done /\ fnCall.result # Null)
        => isValidVideoId(fnCall.result)

\* C18: the watch URL, the short link, the embed URL and the bare string of
\* an identifier in canonical form resolve to that identifier, and
\* 'not a url' resolves to null.
C18_FormsResolve ==
    /\ \A id \in CanonicalIdPool :
           (fnCall.fn = "extractVideoId" /\ fnCall.done
                /\ fnCall.url \in FormsOf(id))
               => fnCall.result = id
    /\ (fnCall.fn = "extractVideoId" /\ fnCall.done /\ fnCall.url = NotAUrl)
           => fnCall.result = Null

\* C18: the short link of an identifier in canonical form has been
\* resolved to it.
C18_Witness ==
    \E id \in CanonicalIdPool : Resolved(ShortUrl(id), id)

\* The result for url is the result for url without the whitespace around
\* it.
IgnoresWhitespace ==
    (fnCall.fn = "extractVideoId" /\ fnCall.done)
        => fnCall.result = extractVideoId(Trim(fnCall.url))

\* The result for a URL followed by '&t=10s', '?t=10' or '#x' is the
\* result for the URL.
IgnoresTrailingParts ==
    \A id \in CanonicalIdPool, part \in TrailingParts :
        (fnCall.fn = "extractVideoId" /\ fnCall.done
             /\ fnCall.url \in {form \o part : form \in FormsOf(id) \ {BareId(id)}})
            => fnCall.result = id

\* C19: resolution ignores the whitespace around a reference and the
\* query parameters or fragment that follow the identifier in a URL.
C19_IgnoresWhitespaceAndTrailingParts ==
    IgnoresWhitespace /\ IgnoresTrailingParts

\* ------------------------------------------------------------------------
\* matchesKeywords on its own
\* ------------------------------------------------------------------------

\* 'great tutorial'
TextGreatTutorial == <<"g","r","e","a","t"," ","t","u","t","o","r","i","a","l">>

\* 'a beginner tutorial'
TextBeginnerTutorial == <<"a"," ","b","e","g","i","n","n","e","r"," ","t","u","t","o","r","i","a","l">>

\* 'this is bad'
TextThisIsBad == <<"t","h","i","s"," ","i","s"," ","b","a","d">>

\* 'great, awesome'
KeywordsGreatAwesome == <<"g","r","e","a","t",","," ","a","w","e","s","o","m","e">>

\* 'tutorial AND beginner'
KeywordsTutorialAndBeginner == <<"t","u","t","o","r","i","a","l"," ","A","N","D"," ","b","e","g","i","n","n","e","r">>

\* 'good NOT bad'
KeywordsGoodNotBad == <<"g","o","o","d"," ","N","O","T"," ","b","a","d">>

\* The texts that matchesKeywords is called with.
MatcherTextPool ==
    { TextGreatTutorial, TextBeginnerTutorial, TextThisIsBad,
      <<"G","r","e","a","t"," ","V","i","d","e","o">>,
      <<>>,
      <<"g","o","o","d"," ","n","o","t"," ","b","a","d">>,
      <<"a","w","e","s","o","m","e">>,
      <<"t","u","t","o","r","i","a","l">>,
      <<"s","o"," ","b","a","d">>,
      <<"a"," ","g","o","o","d"," ","b","e","g","i","n","n","e","r">> }

\* The keyword expressions: the empty one, one of whitespace only, and
\* expressions with commas, OR, AND and NOT.
MatcherKeywordPool ==
    { KeywordsGreatAwesome, KeywordsTutorialAndBeginner, KeywordsGoodNotBad,
      <<>>,
      <<" "," "," ">>,
      <<"t","u","t","o","r","i","a","l"," ","a","n","d"," ","b","e","g","i","n","n","e","r">>,
      <<"N","O","T"," ","b","a","d">>,
      <<"g","r","e","a","t"," ","O","R"," ","b","a","d">>,
      <<"G","r","e","a","t">>,
      <<"t","u","t","o","r","i","a","l"," ","A","N","D"," ","N","O","T"," ","b","e","g","i","n","n","e","r">>,
      <<","," ","g","r","e","a","t">> }

MatcherCalls ==
    { [fn |-> "matchesKeywords", text |-> text, keywords |-> kw,
       done |-> FALSE, result |-> FALSE] :
        text \in MatcherTextPool, kw \in MatcherKeywordPool }

InitMatcher == NoRun /\ fnCall \in MatcherCalls /\ backend = NoBackend

\* matchesKeywords(text, keywords) returns.
Match ==
    /\ fnCall.fn = "matchesKeywords"
    /\ ~fnCall.done
    /\ fnCall' = [fnCall EXCEPT !.done = TRUE,
                      !.result = matchesKeywords(fnCall.text, fnCall.keywords)]
    /\ UNCHANGED <<runVars, backend>>

NextMatcher == Match

SpecMatcher == InitMatcher /\ [][NextMatcher]_vars

\* matchesKeywords(text, kw) has returned.
Matched(text, kw) ==
    /\ fnCall.fn = "matchesKeywords"
    /\ fnCall.done
    /\ fnCall.text = text
    /\ fnCall.keywords = kw

\* C20: matchesKeywords returns true for ('great tutorial',
\* 'great, awesome') and for ('a beginner tutorial',
\* 'tutorial AND beginner'), false for ('this is bad', 'good NOT bad'),
\* and true for every text when the keywords are empty.
C20_GrammarExamples ==
    /\ Matched(TextGreatTutorial, KeywordsGreatAwesome) => fnCall.result
    /\ Matched(TextBeginnerTutorial, KeywordsTutorialAndBeginner) => fnCall.result
    /\ Matched(TextThisIsBad, KeywordsGoodNotBad) => ~fnCall.result
    /\ \A text \in MatcherTextPool : Matched(text, <<>>) => fnCall.result

\* C20: matchesKeywords('this is bad', 'good NOT bad') has returned false.
C20_Witness ==
    Matched(TextThisIsBad, KeywordsGoodNotBad) /\ ~fnCall.result

\* The terms X and Y of the documented expression 'good NOT bad'.
TermGood == <<"g","o","o","d">>

TermBad == <<"b","a","d">>

\* C21: 'good NOT bad' matches a text that contains 'good' and does not
\* contain 'bad', and does not match a text that contains 'bad'.
C21_NotOperator ==
    \A text \in MatcherTextPool :
        Matched(text, KeywordsGoodNotBad)
            => /\ (Includes(ToLower(text), TermGood)
                      /\ ~Includes(ToLower(text), TermBad)) => fnCall.result
               /\ Includes(ToLower(text), TermBad) => ~fnCall.result

\* ------------------------------------------------------------------------
\* The backend (server.js): POST /api/youtube/video-details and
\* POST /api/youtube/comments
\* ------------------------------------------------------------------------

\* The values of a JSON body, each with the text that String() gives for
\* it.
Undefined == [type |-> "undefined",
              value |-> <<"u","n","d","e","f","i","n","e","d">>]

JsNull == [type |-> "null", value |-> <<"n","u","l","l">>]

Str(chars) == [type |-> "string", value |-> chars]

Num(text) == [type |-> "number", value |-> text]

JsTrue == [type |-> "boolean", value |-> <<"t","r","u","e">>]

JsFalse == [type |-> "boolean", value |-> <<"f","a","l","s","e">>]

\* !value is false.
Truthy(value) ==
    CASE value.type = "string"  -> value.value # <<>>
      [] value.type = "number"  -> value.value \notin {<<"0">>, <<"N","a","N">>}
      [] value.type = "boolean" -> value = JsTrue
      [] OTHER                  -> FALSE

\* String(value)
StringOf(value) == value.value

DigitValue(c) ==
    CASE c = "0" -> 0 [] c = "1" -> 1 [] c = "2" -> 2 [] c = "3" -> 3
      [] c = "4" -> 4 [] c = "5" -> 5 [] c = "6" -> 6 [] c = "7" -> 7
      [] c = "8" -> 8 [] c = "9" -> 9

\* The number that a run of decimal digits denotes.
RECURSIVE DigitsValue(_)
DigitsValue(digits) ==
    IF digits = <<>> THEN 0
    ELSE 10 * DigitsValue(SubSeq(digits, 1, Len(digits) - 1))
           + DigitValue(digits[Len(digits)])

\* The result NaN of parseInt.
NotANumber == [isNaN |-> TRUE, value |-> 0]

\* parseInt(value, 10): the whitespace at the start is skipped, a sign is
\* taken, and the longest run of digits that follows is the number; what
\* comes after the digits is ignored.
parseInt(value) ==
    LET str     == TrimStart(StringOf(value))
        signed  == str # <<>> /\ str[1] \in {"+", "-"}
        rest    == IF signed THEN Tail(str) ELSE str
        others  == {k \in DOMAIN rest : rest[k] \notin Digits}
        count   == IF others = {} THEN Len(rest)
                   ELSE (CHOOSE k \in others : \A m \in others : k <= m) - 1
        number  == DigitsValue(Take(rest, count))
    IN  IF count = 0 THEN NotANumber
        ELSE [isNaN |-> FALSE,
              value |-> IF signed /\ str[1] = "-" THEN 0 - number ELSE number]

\* isValidVideoId(videoId) of a value of any type.
IsValidVideoIdValue(value) ==
    value.type = "string" /\ isValidVideoId(value.value)

\* The greatest maxResults and the greatest length of a pageToken.
MaxResultsLimit == 100

PageTokenLimit == 500

\* The greatest length of a URL.
UrlLimit == 2000

\* 'Video ID is required'
VideoIdRequired == <<"V","i","d","e","o"," ","I","D"," ","i","s"," ","r","e","q","u","i","r","e","d">>

\* 'Invalid video ID format'
InvalidVideoIdFormat == <<"I","n","v","a","l","i","d"," ","v","i","d","e","o"," ","I","D"," ","f","o","r","m","a","t">>

\* 'maxResults must be between 1 and 100'
MaxResultsOutOfRange == <<"m","a","x","R","e","s","u","l","t","s"," ","m","u","s","t"," ","b","e"," ","b","e","t","w","e","e","n"," ","1"," ","a","n","d"," ","1","0","0">>

\* 'Invalid page token'
InvalidPageToken == <<"I","n","v","a","l","i","d"," ","p","a","g","e"," ","t","o","k","e","n">>

\* 'Failed to fetch video details'
FailedVideoDetails == <<"F","a","i","l","e","d"," ","t","o"," ","f","e","t","c","h"," ","v","i","d","e","o"," ","d","e","t","a","i","l","s">>

\* 'Failed to fetch comments'
FailedComments == <<"F","a","i","l","e","d"," ","t","o"," ","f","e","t","c","h"," ","c","o","m","m","e","n","t","s">>

\* 'Comments are disabled for this video'
CommentsDisabledMessage == <<"C","o","m","m","e","n","t","s"," ","a","r","e"," ","d","i","s","a","b","l","e","d"," ","f","o","r"," ","t","h","i","s"," ","v","i","d","e","o">>

\* 'URL is required'
UrlRequired == <<"U","R","L"," ","i","s"," ","r","e","q","u","i","r","e","d">>

\* 'Invalid URL format'
InvalidUrlFormat == <<"I","n","v","a","l","i","d"," ","U","R","L"," ","f","o","r","m","a","t">>

\* 'Invalid YouTube URL or video ID'
InvalidUrlOrVideoId == <<"I","n","v","a","l","i","d"," ","Y","o","u","T","u","b","e"," ","U","R","L"," ","o","r"," ","v","i","d","e","o"," ","I","D">>

\* 'Failed to extract video ID'
FailedExtractVideoId == <<"F","a","i","l","e","d"," ","t","o"," ","e","x","t","r","a","c","t"," ","v","i","d","e","o"," ","I","D">>

\* The messages of the error responses.
BackendMessages ==
    {VideoIdRequired, InvalidVideoIdFormat, MaxResultsOutOfRange,
     InvalidPageToken, FailedVideoDetails, FailedComments,
     CommentsDisabledMessage, UrlRequired, InvalidUrlFormat,
     InvalidUrlOrVideoId, FailedExtractVideoId}

\* The answers of the upstream API: data, an error response with a status,
\* a reason and a message of its own, or no response at all.
NoUpstreamAnswer == [kind |-> "none"]

UpstreamStatuses == {400, 403, 404, 500}

UpstreamReasons == {"commentsDisabled", "quotaExceeded", "none"}

UpstreamDetail == <<"A","P","I"," ","k","e","y"," ","n","o","t"," ",
                    "v","a","l","i","d">>

UpstreamAnswers ==
    {[kind |-> "data"], [kind |-> "noResponse", detail |-> UpstreamDetail]}
    \cup {[kind |-> "error", status |-> status, reason |-> reason,
           detail |-> UpstreamDetail] :
              status \in UpstreamStatuses, reason \in UpstreamReasons}

\* res.status(status).json({ error: message })
ErrorResponse(status, message) ==
    [status |-> status, error |-> message, data |-> FALSE]

\* res.json(response.data)
DataResponse == [status |-> 200, error |-> <<>>, data |-> TRUE]

NotResponded == [status |-> 0, error |-> <<>>, data |-> FALSE]

\* The handler sends the response and ends.
Respond(response) ==
    backend' = [backend EXCEPT !.pc = "responded", !.response = response]

\* The handler calls the upstream API with params and awaits the answer.
CallUpstream(endpoint, params) ==
    backend' = [backend EXCEPT
                   !.pc = "awaitUpstream",
                   !.upstream = Append(@, [endpoint |-> endpoint,
                                           params |-> params])]

\* POST /api/youtube/video-details, up to the await of axios.get.
PostVideoDetails ==
    /\ backend.route = "video-details"
    /\ backend.pc = "received"
    /\ LET id == backend.body.videoId
       IN  IF ~Truthy(id)
           THEN Respond(ErrorResponse(400, VideoIdRequired))
           ELSE IF ~IsValidVideoIdValue(id)
           THEN Respond(ErrorResponse(400, InvalidVideoIdFormat))
           ELSE CallUpstream("videos", [id |-> id])
    /\ UNCHANGED <<runVars, fnCall>>

\* POST /api/youtube/comments, up to the await of axios.get.
PostComments ==
    /\ backend.route = "comments"
    /\ backend.pc = "received"
    /\ LET id               == backend.body.videoId
           maxResults       == IF backend.body.maxResults = Undefined
                               THEN Num(<<"1","0","0">>)
                               ELSE backend.body.maxResults
           token            == backend.body.pageToken
           parsedMaxResults == parseInt(maxResults)
       IN  IF ~Truthy(id)
           THEN Respond(ErrorResponse(400, VideoIdRequired))
           ELSE IF ~IsValidVideoIdValue(id)
           THEN Respond(ErrorResponse(400, InvalidVideoIdFormat))
           ELSE IF \/ parsedMaxResults.isNaN
                   \/ parsedMaxResults.value < 1
                   \/ parsedMaxResults.value > MaxResultsLimit
           THEN Respond(ErrorResponse(400, MaxResultsOutOfRange))
           ELSE IF /\ Truthy(token)
                   /\ (token.type # "string" \/ Len(token.value) > PageTokenLimit)
           THEN Respond(ErrorResponse(400, InvalidPageToken))
           ELSE CallUpstream("commentThreads",
                    [videoId    |-> id,
                     maxResults |-> parsedMaxResults.value,
                     pageToken  |-> IF Truthy(token) THEN token ELSE Undefined])
    /\ UNCHANGED <<runVars, fnCall>>

\* POST /api/youtube/extract-video-id.
PostExtractVideoId ==
    /\ backend.route = "extract-video-id"
    /\ backend.pc = "received"
    /\ LET url == backend.body.url
       IN  IF ~Truthy(url)
           THEN Respond(ErrorResponse(400, UrlRequired))
           ELSE IF url.type # "string" \/ Len(url.value) > UrlLimit
           THEN Respond(ErrorResponse(400, InvalidUrlFormat))
           ELSE IF extractVideoId(url.value) = Null
           THEN Respond(ErrorResponse(400, InvalidUrlOrVideoId))
           ELSE Respond(DataResponse)
    /\ UNCHANGED <<runVars, fnCall>>

\* error.response?.status || 500
StatusOf(answer) == IF answer.kind = "error" THEN answer.status ELSE 500

\* The rest of the video-details handler: the data, or the catch block.
VideoDetailsAnswered(answer) ==
    /\ backend.route = "video-details"
    /\ backend.pc = "awaitUpstream"
    /\ backend' = [backend EXCEPT
                      !.pc = "responded",
                      !.answer = answer,
                      !.response =
                          IF answer.kind = "data" THEN DataResponse
                          ELSE ErrorResponse(StatusOf(answer), FailedVideoDetails)]
    /\ UNCHANGED <<runVars, fnCall>>

\* A variant of CommentsError that hands on the message of the upstream
\* API.
CommentsErrorWithDetail(answer) == ErrorResponse(StatusOf(answer), answer.detail)

\* The catch block of the comments handler.
CommentsError(answer) ==
    IF answer.kind = "error" /\ answer.status = 403
          /\ answer.reason = "commentsDisabled"
    THEN ErrorResponse(403, CommentsDisabledMessage)
    ELSE ErrorResponse(StatusOf(answer), FailedComments)

\* The rest of the comments handler: the data, or the catch block.
CommentsAnswered(answer) ==
    /\ backend.route = "comments"
    /\ backend.pc = "awaitUpstream"
    /\ backend' = [backend EXCEPT
                      !.pc = "responded",
                      !.answer = answer,
                      !.response = IF answer.kind = "data" THEN DataResponse
                                   ELSE CommentsError(answer)]
    /\ UNCHANGED <<runVars, fnCall>>

\* The values of videoId in a body.
BodyVideoIdPool ==
    { Undefined, JsNull, Str(<<>>), Num(<<"1","2","3","4","5","6","7","8","9","0","1">>) }
    \cup {Str(id) : id \in CanonicalIdPool \cup OtherIdPool}

\* The values of maxResults in a body.
BodyMaxResultsPool ==
    { Undefined, JsNull,
      Num(<<"1">>), Num(<<"1","0","0">>), Num(<<"0">>), Num(<<"1","0","1">>),
      Num(<<"5","0",".","5">>), Str(<<"5","0">>), Str(<<"5","0","a","b","c">>), Str(<<"a","b","c">>),
      Str(<<"-","5">>) }

\* A string of n characters.
StringOfLength(n) == [i \in 1..n |-> "x"]

\* The values of pageToken in a body.
BodyPageTokenPool ==
    { Undefined, JsNull, Str(<<>>), Str(<<"T","1">>),
      Str(StringOfLength(PageTokenLimit)),
      Str(StringOfLength(PageTokenLimit + 1)),
      Num(<<"0">>), Num(<<"7">>), JsFalse, JsTrue }

\* The values of url in a body.
BodyUrlPool ==
    { Undefined, Str(<<>>), Num(<<"7">>), Str(NotAUrl), Str(WatchUrlA),
      Str(BareIdB), Str(ShortUrl(<<"a","b","c">>)),
      Str(StringOfLength(UrlLimit + 1)) }

BackendRequests ==
    { [route |-> "video-details",
       body |-> [videoId |-> id, maxResults |-> Undefined,
                 pageToken |-> Undefined, url |-> Undefined],
       pc |-> "received", upstream |-> <<>>, answer |-> NoUpstreamAnswer,
       response |-> NotResponded] : id \in BodyVideoIdPool }
    \cup
    { [route |-> "comments",
       body |-> [videoId |-> id, maxResults |-> maxResults,
                 pageToken |-> token, url |-> Undefined],
       pc |-> "received", upstream |-> <<>>, answer |-> NoUpstreamAnswer,
       response |-> NotResponded] :
          id \in BodyVideoIdPool, maxResults \in BodyMaxResultsPool,
          token \in BodyPageTokenPool }
    \cup
    { [route |-> "extract-video-id",
       body |-> [videoId |-> Undefined, maxResults |-> Undefined,
                 pageToken |-> Undefined, url |-> url],
       pc |-> "received", upstream |-> <<>>, answer |-> NoUpstreamAnswer,
       response |-> NotResponded] : url \in BodyUrlPool }

InitBackend == NoRun /\ fnCall = NoFnCall /\ backend \in BackendRequests

NextBackend ==
    \/ PostVideoDetails
    \/ PostComments
    \/ PostExtractVideoId
    \/ \E answer \in UpstreamAnswers : VideoDetailsAnswered(answer)
    \/ \E answer \in UpstreamAnswers : CommentsAnswered(answer)

SpecBackend == InitBackend /\ [][NextBackend]_vars

\* The request of the handler is valid: videoId is a string of 11
\* characters of [A-Za-z0-9_-] and, for comments, maxResults (100 when
\* absent) is an integer in 1..100 and pageToken is absent or a string of
\* at most 500 characters.
IsInteger(value) ==
    /\ value.type = "number"
    /\ value.value # <<>>
    /\ \A i \in DOMAIN value.value : value.value[i] \in Digits

ValidBody(route, body) ==
    /\ IsValidVideoIdValue(body.videoId)
    /\ route = "comments" =>
          /\ \/ body.maxResults = Undefined
             \/ /\ IsInteger(body.maxResults)
                /\ DigitsValue(body.maxResults.value) \in 1..MaxResultsLimit
          /\ \/ body.pageToken = Undefined
             \/ /\ body.pageToken.type = "string"
                /\ Len(body.pageToken.value) <= PageTokenLimit

\* C22: a request with a body that is not valid is answered with status
\* 400 and makes no call to the upstream API.
C22_ValidatedBeforeForwarding ==
    (backend.route \in {"video-details", "comments"}
         /\ ~ValidBody(backend.route, backend.body))
        => /\ backend.upstream = <<>>
           /\ backend.pc # "received" => backend.response.status = 400

\* The part of C22 about videoId.
VideoIdValidatedBeforeForwarding ==
    (backend.route \in {"video-details", "comments"}
         /\ ~IsValidVideoIdValue(backend.body.videoId))
        => /\ backend.upstream = <<>>
           /\ backend.pc # "received" => backend.response.status = 400

\* fetchComments of the client: the message of the Error that it throws
\* for a response that is not ok (errorData.error, or the status when the
\* body has no error).
FetchCommentsErrorMessage(response) ==
    IF response.error # <<>> THEN response.error
    ELSE FailedComments \o <<":"," ">>

\* 'Comments are disabled'
CommentsAreDisabled == <<"C","o","m","m","e","n","t","s"," ","a","r","e"," ","d","i","s","a","b","l","e","d">>

\* error.message.includes('Comments are disabled') in the page loop.
RecognisedAsDisabled(message) == Includes(message, CommentsAreDisabled)

\* The upstream API has answered the request with a failure.
UpstreamFailed ==
    /\ backend.route # "none"
    /\ backend.pc = "responded"
    /\ backend.answer.kind \in {"error", "noResponse"}

\* The upstream API has answered 403 with the reason commentsDisabled.
UpstreamSaysDisabled ==
    /\ backend.answer.kind = "error"
    /\ backend.answer.status = 403
    /\ backend.answer.reason = "commentsDisabled"

\* C23: an error response carries one of the fixed messages and not the
\* message of the upstream API; after an upstream failure the
\* video-details route answers 'Failed to fetch video details' and the
\* comments route 'Failed to fetch comments', with the upstream status or
\* 500, except that the comments route answers an upstream 403
\* commentsDisabled with 403 and 'Comments are disabled for this video',
\* the one message that the page loop of the client takes for disabled
\* comments.
C23_SanitizedErrors ==
    /\ (backend.route # "none" /\ backend.pc = "responded"
           /\ ~backend.response.data)
          => /\ backend.response.error \in BackendMessages
             /\ backend.response.error # UpstreamDetail
             /\ ~Includes(backend.response.error, UpstreamDetail)
    /\ (UpstreamFailed /\ backend.route = "video-details")
          => backend.response =
                 ErrorResponse(IF backend.answer.kind = "error"
                               THEN backend.answer.status ELSE 500,
                               FailedVideoDetails)
    /\ (UpstreamFailed /\ backend.route = "comments" /\ UpstreamSaysDisabled)
          => /\ backend.response = ErrorResponse(403, CommentsDisabledMessage)
             /\ RecognisedAsDisabled(FetchCommentsErrorMessage(backend.response))
    /\ (UpstreamFailed /\ backend.route = "comments" /\ ~UpstreamSaysDisabled)
          => /\ backend.response =
                    ErrorResponse(IF backend.answer.kind = "error"
                                  THEN backend.answer.status ELSE 500,
                                  FailedComments)
             /\ ~RecognisedAsDisabled(FetchCommentsErrorMessage(backend.response))

\* C23: the comments route has answered an upstream 403 commentsDisabled.
C23_Witness ==
    /\ UpstreamFailed
    /\ backend.route = "comments"
    /\ UpstreamSaysDisabled
    /\ backend.response.status = 403

\* ------------------------------------------------------------------------
\* exportToExcel, sanitizeComment, sanitizeForExcel (utils/excelExporter.ts)
\* ------------------------------------------------------------------------

\* /^[=+\-@\t\r]/
DangerousChars == {"=", "+", "-", "@", "\t", "\r"}

\* A variant of sanitizeForExcel that returns every value as it is.
sanitizeNothing(value) == value

sanitizeForExcel(value) ==
    IF value.type # "string" THEN value
    ELSE IF value.value # <<>> /\ value.value[1] \in DangerousChars
    THEN Str(<<"'">> \o value.value)
    ELSE value

sanitizeComment(comment) ==
    [id          |-> sanitizeForExcel(comment.id),
     author      |-> sanitizeForExcel(comment.author),
     text        |-> sanitizeForExcel(comment.text),
     videoUrl    |-> sanitizeForExcel(comment.videoUrl),
     videoTitle  |-> sanitizeForExcel(comment.videoTitle),
     publishedAt |-> sanitizeForExcel(comment.publishedAt),
     likeCount   |-> comment.likeCount]

\* comments.map(sanitizeComment)
sanitizedComments(list) == [i \in DOMAIN list |-> sanitizeComment(list[i])]

\* The strings of the cells: with each of the dangerous characters at the
\* start, with one further in, with a quote at the start, and plain ones.
ExportStringPool ==
    { <<"=","1","+","1">>,
      <<"+","1">>,
      <<"-","1">>,
      <<"@","S","U","M","(","A","1",")">>,
      <<"\t","x">>,
      <<"\r","x">>,
      <<"'","=","1","+","1">>,
      <<"h","e","l","l","o">>,
      <<>>,
      <<" ","=","1","+","1">>,
      <<"a","=","b">> }

ExportAuthorPool == { <<"b","o","b">>, <<"@","b","o","b">> }

\* The comments to export.
ExportCommentPool ==
    { [id          |-> Str(<<"U","g","x","1">>),
       author      |-> Str(author),
       text        |-> Str(text),
       videoUrl    |-> Str(WatchUrlA),
       videoTitle  |-> Str(title),
       publishedAt |-> Str(<<"2","0","2","4","-","0","1","-","0","2">>),
       likeCount   |-> likes] :
          author \in ExportAuthorPool, text \in ExportStringPool,
          title \in {<<"V","i","d","e","o"," ","A">>, <<"-","V","i","d","e","o","-">>},
          likes \in {Num(<<"0">>), Num(<<"5">>)} }

\* Calls of exportToExcel, with and without the XLSX library loaded.
ExportCalls ==
    { [fn |-> "exportToExcel", comments |-> <<comment>>, xlsx |-> xlsx,
       done |-> FALSE, written |-> FALSE, result |-> <<>>] :
          comment \in ExportCommentPool, xlsx \in BOOLEAN }

InitExport == NoRun /\ fnCall \in ExportCalls /\ backend = NoBackend

\* exportToExcel(comments, fileName) returns: nothing is written when the
\* library is missing, else the sheet of the sanitized comments.
Export ==
    /\ fnCall.fn = "exportToExcel"
    /\ ~fnCall.done
    /\ fnCall' = IF ~fnCall.xlsx
                 THEN [fnCall EXCEPT !.done = TRUE]
                 ELSE [fnCall EXCEPT !.done = TRUE, !.written = TRUE,
                           !.result = sanitizedComments(fnCall.comments)]
    /\ UNCHANGED <<runVars, backend>>

NextExport == Export

SpecExport == InitExport /\ [][NextExport]_vars

\* The fields of a comment that hold strings.
StringFields ==
    {"id", "author", "text", "videoUrl", "videoTitle", "publishedAt"}

\* value starts with one of '=', '+', '-', '@', tab, carriage return.
StartsDangerous(chars) ==
    chars # <<>> /\ chars[1] \in {"=", "+", "-", "@", "\t", "\r"}

\* C24: no string cell of the sheet starts with '=', '+', '-', '@', tab or
\* carriage return; a value that does is written with a single quote in
\* front, every other string and likeCount are written unchanged, and
\* sanitizing a cell again does not change it.
C24_NoFormulaCells ==
    (fnCall.fn = "exportToExcel" /\ fnCall.done /\ fnCall.written)
        => /\ Len(fnCall.result) = Len(fnCall.comments)
           /\ \A i \in DOMAIN fnCall.result :
                 /\ fnCall.result[i].likeCount = fnCall.comments[i].likeCount
                 /\ \A field \in StringFields :
                       LET cell  == fnCall.result[i][field]
                           value == fnCall.comments[i][field]
                       IN  /\ cell.type = "string"
                           /\ ~StartsDangerous(cell.value)
                           /\ cell = IF StartsDangerous(value.value)
                                     THEN Str(<<"'">> \o value.value)
                                     ELSE value
                           /\ sanitizeForExcel(cell) = cell

\* C24: a sheet has been written for a comment whose text starts with '='
\* and whose author does not start with a dangerous character.
C24_Witness ==
    /\ fnCall.fn = "exportToExcel"
    /\ fnCall.done
    /\ fnCall.written
    /\ fnCall.comments[1].text = Str(<<"=","1","+","1">>)
    /\ fnCall.result[1].text = Str(<<"'","=","1","+","1">>)
    /\ fnCall.result[1].author = fnCall.comments[1].author

\* The step calls onProgress.
ProgressCalled ==
    /\ ref'.index = ref.index
    /\ ref'.progressCalls = ref.progressCalls + 1

\* C25: once the signal is aborted the run sends no request, and it calls
\* onProgress only in the step that handles the answer to the page request
\* that was in flight, after which it never awaits a page again.
C25_NoRequestAfterAbort ==
    [][ aborted
          => /\ ~RequestIssued
             /\ lastRequest' = lastRequest
             /\ ref'.pageRequests = ref.pageRequests
             /\ ProgressCalled => (pc = "awaitComments" /\ ~Awaiting(pc'))
             /\ pc # "awaitComments" => (pc' # "awaitComments" /\ ~ProgressCalled)
      ]_vars

\* C25: the signal was aborted while the first page was in flight, the
\* page has been handled with a progress call, and the run has ended.
C25_Witness ==
    /\ aborted
    /\ abortedWhen = "beforeFirstProgress"
    /\ delivered # <<>>
    /\ ref.progressCalls = 1
    /\ ref.pageRequests = 1
    /\ lastResponse.op = "comments"
    /\ lastResponse.cursor # NoToken
    /\ lastResponse.handled = "done"
    /\ pc = "done"
    /\ outcome.kind = "threw"

\* The step sends a request for a page that is not the first page of its
\* reference.
LaterPageRequested ==
    /\ RequestIssued
    /\ pc' = "awaitComments"
    /\ ref'.pageRequests > 1

\* The step sends the request for the details of a video, and the run has
\* sent a request for another reference before.
NextVideoRequested ==
    /\ RequestIssued
    /\ pc' = "awaitDetails"
    /\ lastRequest # NoRequest

\* A page request after the first is sent by the step that ends the delay
\* between pages.
PagesPaced == [][LaterPageRequested => pc = "delayPage"]_vars

\* C26: a page request after the first is sent only when the delay
\* between pages is over, and the first request for a further reference
\* only when the delay between videos is over, also after a reference
\* whose details could not be fetched.
C26_Pacing ==
    [][ /\ LaterPageRequested => pc = "delayPage"
        /\ NextVideoRequested => pc = "delayVideo" ]_vars

\* ------------------------------------------------------------------------
\* The run against a remote source that chooses the cursor of every page
\* ------------------------------------------------------------------------

\* The cursors that the remote source returns.
CursorPool == {"T1", "T2"}

\* The pages: an empty one, and one with a thread.
CursorPagePool ==
    { <<>>,
      <<Thread("c1", TRUE, 2 * MsPerDay + 12 * MsPerHour,
               <<"G","r","e","a","t"," ","v","i","d","e","o">>, 3)>> }

\* What fetchComments does: it throws, or returns a page with or without
\* a cursor, which may be the cursor of the page before.
CursorResponses ==
    {[kind |-> "error"]}
        \cup {[kind |-> "ok", items |-> items, nextPageToken |-> next] :
                items \in CursorPagePool, next \in CursorPool \cup {NoToken}}

InitCursor ==
    /\ urls \in UrlLists
    /\ startDate = 1
    /\ endDate = 2
    /\ keywords = KeywordsGreatOrBad
    /\ onProgress = "callback"
    /\ tz = 0
    /\ aborted = FALSE
    /\ abortedWhen = "never"
    /\ FreshRun
    /\ AppInitial
    /\ fnCall = NoFnCall
    /\ backend = NoBackend
    /\ script = NoScript

NextCursor ==
    \/ Call
    \/ \E response \in DetailsResponses : RecvDetails(response)
    \/ \E response \in CursorResponses : RecvComments(response, "returns")
    \/ DelayPage
    \/ DelayVideo

SpecCursor == InitCursor /\ [][NextCursor]_vars

\* Every request is answered and every delay ends.
SpecCursorFair == SpecCursor /\ WF_vars(NextCursor)

\* The step sends a request for a page.
PageRequested == RequestIssued /\ pc' = "awaitComments"

\* C27: the first page request for a reference carries no cursor; a later
\* one carries the cursor of the answer to the page request before it,
\* which was for the same reference.
C27_CursorChaining ==
    [][ PageRequested
          => /\ lastRequest'.op = "comments"
             /\ lastRequest'.index = ref'.index
             /\ IF ref'.pageRequests = 1
                THEN /\ lastRequest'.pageToken = NoToken
                     /\ lastResponse'.op = "video-details"
                     /\ lastResponse'.index = lastRequest'.index
                ELSE /\ lastResponse' = lastResponse
                     /\ lastResponse.op = "comments"
                     /\ lastResponse.kind = "ok"
                     /\ lastResponse.index = lastRequest'.index
                     /\ lastResponse.page = ref'.pageRequests - 1
                     /\ lastResponse.cursor # NoToken
                     /\ lastRequest'.pageToken = lastResponse.cursor
      ]_vars

\* C27: the third page of the second reference has been asked for with the
\* cursor T1, after the second page was asked for with T2, and the first
\* reference had its pages.
C27_Witness ==
    /\ pc = "awaitComments"
    /\ Len(urls) = 2
    /\ urlIndex = 2
    /\ VideoIdOf(urls[1]) # Null
    /\ ref.pageRequests = 3
    /\ lastResponse.cursor = "T1"
    /\ lastRequest.pageToken = "T1"
    /\ Len(allComments) = 1
    /\ allComments[1].videoUrl = urls[1]

\* The step sends a request for the details of a video.
DetailsRequested == RequestIssued /\ pc' = "awaitDetails"

\* The index of the reference of the last request, 0 before the first.
LastRequestIndex == IF lastRequest = NoRequest THEN 0 ELSE lastRequest.index

\* C28: if every request is answered, the run ends, by returning or by
\* throwing; the metadata requests go to references of strictly increasing
\* index, so there are at most Len(urls) of them, and at most MAX_PAGES
\* page requests are sent for a reference, whatever cursors the remote
\* source returns.
C28_Terminates ==
    /\ <>(pc = "done")
    /\ [](ref.pageRequests <= MAX_PAGES)
    /\ [](pc = "done" => outcome.kind \in {"returned", "threw"})
    /\ [][ /\ DetailsRequested
              => /\ lastRequest'.index > LastRequestIndex
                 /\ lastRequest'.index <= Len(urls)
           /\ PageRequested
              => /\ lastRequest'.index = ref.index
                 /\ ref'.pageRequests = ref.pageRequests + 1
         ]_vars

\* C28: the run has returned after MAX_PAGES pages of a reference, the
\* last of which came with a cursor.
C28_Witness ==
    /\ pc = "done"
    /\ outcome.kind = "returned"
    /\ ref.pageRequests = MAX_PAGES
    /\ lastResponse.op = "comments"
    /\ lastResponse.cursor # NoToken

\* The thread passes the date test and the keyword test of lines 182-192.
PassesTests(thread) ==
    /\ thread.wellFormed
    /\ ~OutsideDateRange(thread.publishedAt, startDate, endDate, tz)
    /\ keywords # <<>> => KeywordMatch(thread.text, keywords)

\* The records of the threads of a page that pass both tests and whose id
\* is not in seen and not earlier in the page, in the order of the page.
RECURSIVE Accepted(_, _, _, _)
Accepted(threads, seen, url, title) ==
    IF threads = <<>> THEN <<>>
    ELSE LET thread == Head(threads)
         IN  IF PassesTests(thread) /\ thread.id \notin seen
             THEN <<[id |-> thread.id, url |-> url, title |-> title]>>
                      \o Accepted(Tail(threads), seen \cup {thread.id}, url, title)
             ELSE Accepted(Tail(threads), seen, url, title)

\* The ids, with the video they are attributed to, that the processing of
\* page adds to the accumulator of the run.
Added(page) ==
    LET all == Processed(page).all
    IN  [i \in 1..(Len(all) - Len(allComments)) |->
            [id    |-> all[Len(allComments) + i].id,
             url   |-> all[Len(allComments) + i].videoUrl,
             title |-> all[Len(allComments) + i].videoTitle]]

\* When the run awaits a page, whatever page comes: the accumulator is
\* extended by the threads of the page that pass both tests and are new.
NoLoss(pages) ==
    pc = "awaitComments"
        => \A page \in pages :
              /\ IsPrefix(allComments, Processed(page).all)
              /\ Added(page) = Accepted(page, seenCommentIds, urls[urlIndex],
                                        videoTitle)

\* The pages of threads that all have a snippet and a date.
WellFormedPages ==
    {page \in PagePool : \A i \in 1..Len(page) : WellFormed(page[i])}

\* No thread of a page of well-formed threads is lost.
NoLossOnWellFormedPages == NoLoss(WellFormedPages)

\* C29: every thread of a fetched page that passes the date test and the
\* keyword test and whose id is new is appended to the accumulator, in the
\* order of the page, and is in the snapshot of the progress call for the
\* page.
C29_NoSilentLoss ==
    /\ [] NoLoss(PagePool)
    /\ [][ (PageAnswered /\ ProgressCalled) => delivered' = <<allComments'>> ]_vars

\* ------------------------------------------------------------------------
\* matchesKeywords against the grammar: comma, OR, AND, NOT
\* ------------------------------------------------------------------------

\* The terms of the expressions.
PrecedenceTerms == { <<"g","r","e","a","t">>, <<"b","a","d">>, <<"t","u","t","o","r","i","a","l">> }

\* A term, or NOT and a term.
PrecedenceOperands ==
    PrecedenceTerms \cup {<<"N","O","T"," ">> \o term : term \in PrecedenceTerms}

\* ', ', ' OR ', ' AND ' and ' and '
PrecedenceOperators ==
    { <<","," ">>, <<" ","O","R"," ">>, <<" ","A","N","D"," ">>,
      <<" ","a","n","d"," ">> }

\* The expressions of one, two and three operands, with every choice of
\* operators between them.
FullExpressions ==
    PrecedenceOperands
    \cup { a \o op \o b :
             a \in PrecedenceOperands, b \in PrecedenceTerms,
             op \in PrecedenceOperators }
    \cup { a \o op1 \o b \o op2 \o c :
             a \in {<<"g","r","e","a","t">>, <<"N","O","T"," ","g","r","e","a","t">>}, b \in {<<"b","a","d">>}, c \in {<<"t","u","t","o","r","i","a","l">>, <<"N","O","T"," ","t","u","t","o","r","i","a","l">>},
             op1 \in PrecedenceOperators, op2 \in PrecedenceOperators }

\* Expressions with a comma and a single clause: ', great', 'great,' and
\* 'great AND bad,'.
SingleClauseExpressions ==
    { <<","," ","g","r","e","a","t">>, <<"g","r","e","a","t",",">>, <<"g","r","e","a","t"," ","A","N","D"," ","b","a","d",",">> }

\* The texts: every choice of the terms, in upper and lower case.
PrecedenceTexts ==
    { <<>>, <<"G","r","e","a","t">>, <<"b","a","d">>, <<"t","u","t","o","r","i","a","l">>, <<"g","r","e","a","t"," ","a","n","d"," ","B","A","D">>, <<"g","r","e","a","t"," ","t","u","t","o","r","i","a","l">>, <<"b","a","d"," ","t","u","t","o","r","i","a","l">>, <<"a"," ","g","r","e","a","t",","," ","b","a","d"," ","t","u","t","o","r","i","a","l">> }

PrecedenceCalls ==
    { [fn |-> "matchesKeywords", text |-> text, keywords |-> kw,
       done |-> FALSE, result |-> FALSE] :
        text \in PrecedenceTexts,
        kw \in FullExpressions \cup SingleClauseExpressions }

InitPrecedence == NoRun /\ fnCall \in PrecedenceCalls /\ backend = NoBackend

SpecPrecedence == InitPrecedence /\ [][NextMatcher]_vars

\* The reference evaluation of one AND part: the negation of a substring
\* test when the part starts with NOT and whitespace, else a substring
\* test.
ReferenceTerm(text, part) ==
    LET trimmed == Trim(part)
    IN  IF /\ Len(trimmed) > Len(NotToken) + 1
           /\ Take(trimmed, Len(NotToken)) = NotToken
           /\ trimmed[Len(NotToken) + 1] \in Whitespace
        THEN ~Includes(text, Trim(Drop(trimmed, Len(NotToken) + 1)))
        ELSE Includes(text, trimmed)

\* The reference evaluation of a clause: OR over its OR parts of AND over
\* their AND parts.
ReferenceClause(text, clause) ==
    \E orPart \in Range(SplitOperator(clause, OrToken)) :
        \A andPart \in Range(SplitOperator(orPart, AndToken)) :
            ReferenceTerm(text, andPart)

\* The reference evaluation of an expression: true when it is empty, else
\* OR over its clauses, in lower case.
ReferenceMatch(text, kw) ==
    \/ Trim(kw) = <<>>
    \/ \E clause \in Range(FilterNonEmpty(MapTrim(SplitComma(ToLower(kw))))) :
           ReferenceClause(ToLower(text), clause)

\* C30: matchesKeywords returns what the reference evaluation gives, with
\* the precedence comma < OR < AND < NOT.
C30_Precedence ==
    (fnCall.fn = "matchesKeywords" /\ fnCall.done)
        => fnCall.result = ReferenceMatch(fnCall.text, fnCall.keywords)

\* The same for the expressions without a stray comma.
PrecedenceOfFullExpressions ==
    (fnCall.fn = "matchesKeywords" /\ fnCall.done
         /\ fnCall.keywords \in FullExpressions)
        => fnCall.result = ReferenceMatch(fnCall.text, fnCall.keywords)

\* The clauses joined by commas.
RECURSIVE JoinComma(_)
JoinComma(parts) ==
    IF parts = <<>> THEN <<>>
    ELSE IF Len(parts) = 1 THEN parts[1]
    ELSE parts[1] \o <<",">> \o JoinComma(Tail(parts))

\* The expression without its empty clauses: the commas at the start and
\* at the end and the doubled commas are removed.
WithoutEmptyClauses(kw) ==
    JoinComma(SelectSeq(SplitComma(kw), LAMBDA part : Trim(part) # <<>>))

\* C31: matchesKeywords gives the same result for an expression and for
\* the expression without its empty clauses, and an expression that is
\* empty or of whitespace only matches every text.
C31_EmptyClauses ==
    (fnCall.fn = "matchesKeywords" /\ fnCall.done)
        => /\ fnCall.result =
                 matchesKeywords(fnCall.text, WithoutEmptyClauses(fnCall.keywords))
           /\ Trim(fnCall.keywords) = <<>> => fnCall.result

\* ------------------------------------------------------------------------
\* matchesKeywords as a call: its early return, its try block and its
\* catch clause
\* ------------------------------------------------------------------------

\* The separators of the fallback, /[,\s]+/.
FallbackSeparators == Whitespace \cup {","}

\* keywords.toLowerCase().split(/[,\s]+/).filter(t => t.length > 0)
FallbackTerms(kw) ==
    LET lower == ToLower(kw)
    IN  { SubSeq(lower, i, j) :
            <<i, j>> \in
              { pair \in (DOMAIN lower) \X (DOMAIN lower) :
                  /\ pair[1] <= pair[2]
                  /\ \A k \in pair[1]..pair[2] : lower[k] \notin FallbackSeparators
                  /\ pair[1] = 1 \/ lower[pair[1] - 1] \in FallbackSeparators
                  /\ pair[2] = Len(lower)
                        \/ lower[pair[2] + 1] \in FallbackSeparators } }

\* A variant of FallbackMatch that looks for the expression as a whole.
FallbackMatchWhole(text, kw) == Includes(ToLower(text), ToLower(kw))

\* Lines 79-84: terms.some(term => lowerText.includes(term))
FallbackMatch(text, kw) ==
    \E term \in FallbackTerms(kw) : Includes(ToLower(text), term)

Returned(value) == [raised |-> FALSE, value |-> value]

\* A TypeError leaves the function.
Raised == [raised |-> TRUE, value |-> FALSE]

\* matchesKeywords(text, keywords) for arguments of any type. anomaly: an
\* error is thrown inside the try block (no string makes the statements
\* of the block throw; the catch clause is there for such an error).
matchesKeywordsCall(text, kw, anomaly) ==
    IF ~Truthy(kw) THEN Returned(TRUE)
    ELSE IF kw.type # "string" THEN Raised
    ELSE IF Trim(kw.value) = <<>> THEN Returned(TRUE)
    ELSE IF text.type # "string" THEN Raised
    ELSE IF anomaly THEN Returned(FallbackMatch(text.value, kw.value))
    ELSE Returned(matchesKeywords(text.value, kw.value))

\* The arguments, strings and values that are not strings.
TotalTextPool == {Str(text) : text \in MatcherTextPool} \cup {Undefined}

TotalKeywordPool ==
    {Str(kw) : kw \in MatcherKeywordPool \cup SingleClauseExpressions}
        \cup {Undefined, Num(<<"7">>)}

TotalCalls ==
    { [fn |-> "matchesKeywordsCall", text |-> text, keywords |-> kw,
       anomaly |-> anomaly, done |-> FALSE, result |-> Returned(FALSE)] :
        text \in TotalTextPool, kw \in TotalKeywordPool, anomaly \in BOOLEAN }

InitTotal == NoRun /\ fnCall \in TotalCalls /\ backend = NoBackend

\* The call returns or raises.
MatchCall ==
    /\ fnCall.fn = "matchesKeywordsCall"
    /\ ~fnCall.done
    /\ fnCall' = [fnCall EXCEPT
                     !.done = TRUE,
                     !.result = matchesKeywordsCall(fnCall.text, fnCall.keywords,
                                                    fnCall.anomaly)]
    /\ UNCHANGED <<runVars, backend>>

NextTotal == MatchCall

SpecTotal == InitTotal /\ [][NextTotal]_vars

\* The terms of an expression in lower case: the runs of characters
\* between commas and whitespace, from position i on, with the run so far.
RECURSIVE TermsFrom(_, _, _)
TermsFrom(s, i, run) ==
    IF i > Len(s) THEN (IF run = <<>> THEN {} ELSE {run})
    ELSE IF s[i] = "," \/ s[i] \in Whitespace
    THEN (IF run = <<>> THEN {} ELSE {run}) \cup TermsFrom(s, i + 1, <<>>)
    ELSE TermsFrom(s, i + 1, Append(run, s[i]))

\* The call was of a text string and an expression string.
StringsMatched ==
    /\ fnCall.fn = "matchesKeywordsCall"
    /\ fnCall.done
    /\ fnCall.text.type = "string"
    /\ fnCall.keywords.type = "string"

\* C32: for a text string and an expression string matchesKeywords
\* returns a boolean and does not raise; when the try block throws, it
\* returns whether the text contains one of the terms that commas and
\* whitespace separate in the expression.
C32_Total ==
    StringsMatched
        => /\ ~fnCall.result.raised
           /\ fnCall.result.value \in BOOLEAN
           /\ (fnCall.anomaly /\ Trim(fnCall.keywords.value) # <<>>)
                 => fnCall.result.value =
                       (\E term \in TermsFrom(ToLower(fnCall.keywords.value), 1, <<>>) :
                            Includes(ToLower(fnCall.text.value), term))

\* C32: the catch clause has returned true for an expression that the
\* try block evaluates to false: 'good NOT bad' on 'this is bad'.
C32_Witness ==
    /\ StringsMatched
    /\ fnCall.anomaly
    /\ fnCall.text = Str(TextThisIsBad)
    /\ fnCall.keywords = Str(KeywordsGoodNotBad)
    /\ fnCall.result = Returned(TRUE)

\* ------------------------------------------------------------------------
\* The run on two references that resolve, also to the same identifier,
\* against a remote source that answers each reference with a title and
\* one page of comments
\* ------------------------------------------------------------------------

GroupTitles == {"Video A", "Video B"}

\* Threads that pass the tests for <<1, 2>> and 'great, bad' (c1, c2),
\* one that fails the keyword test (c3) and one with a date that does not
\* parse (c6).
GroupThreads == {thread \in ThreadPool : thread.id \in {"c1", "c2", "c3", "c6"}}

GroupPages == SeqsUpTo(GroupThreads, MaxPageLen)

\* What the remote source answers for one reference.
GroupAnswers == {[title |-> title, items |-> items] :
                    title \in GroupTitles, items \in GroupPages}

GroupUrlLists ==
    {<<WatchUrlA, BareIdA>>, <<BareIdA, WatchUrlA>>, <<WatchUrlA, WatchUrlA>>,
     <<WatchUrlA, BareIdB>>}

InitGroups ==
    /\ urls \in GroupUrlLists
    /\ startDate = 1
    /\ endDate = 2
    /\ keywords = KeywordsGreatOrBad
    /\ onProgress = "callback"
    /\ tz = 0
    /\ aborted = FALSE
    /\ abortedWhen = "never"
    /\ FreshRun
    /\ AppInitial
    /\ fnCall = NoFnCall
    /\ backend = NoBackend
    /\ script \in [1..2 -> GroupAnswers]

\* fetchVideoDetails answers with the title of the script.
GroupDetails ==
    /\ urlIndex \in DOMAIN script
    /\ RecvDetails([kind |-> "ok", title |-> script[urlIndex].title])

\* fetchComments answers with the page of the script, the only page;
\* onProgress returns.
GroupPage ==
    /\ urlIndex \in DOMAIN script
    /\ RecvComments([kind |-> "ok", items |-> script[urlIndex].items,
                     nextPageToken |-> NoToken], "returns")

NextGroups ==
    \/ Call
    \/ GroupDetails
    \/ GroupPage
    \/ DelayVideo

SpecGroups == InitGroups /\ [][NextGroups]_vars

\* The run has returned its collection on a script of two references.
GroupsReturned ==
    /\ script # NoScript
    /\ pc = "done"
    /\ outcome.kind = "returned"

\* The records that a step has added to the accumulator.
AddedByStep == (Len(allComments) + 1)..Len(allComments')

\* C33: the run goes through the references in input order and never
\* back; a record is added at the end of the collection, while the run is
\* at the reference whose page holds its thread and when no record has its
\* id yet, with that reference as it was given as videoUrl and with the
\* title that the details of that reference came with as videoTitle, also
\* when two references resolve to the same identifier; no record is moved
\* or changed afterwards, and the collection returned is the accumulator.
C33_GroupedByReference ==
    [][ /\ urlIndex' >= urlIndex
        /\ Len(allComments') >= Len(allComments)
        /\ SubSeq(allComments', 1, Len(allComments)) = allComments
        /\ \A k \in AddedByStep :
              /\ urlIndex' = urlIndex
              /\ urlIndex \in DOMAIN script
              /\ allComments'[k].id \in {thread.id : thread \in Range(script[urlIndex].items)}
              /\ \A l \in 1..(k - 1) : allComments'[l].id # allComments'[k].id
              /\ allComments'[k].videoUrl = urls[urlIndex]
              /\ allComments'[k].videoTitle = script[urlIndex].title
        /\ (pc' = "done" /\ outcome'.kind = "returned")
              => outcome'.value = allComments' ]_vars

\* C33: two references to the same video, the second with another title
\* and with the first one's comment again: the collection has the comment
\* of the first under the first and the new comment under the second.
C33_Witness ==
    /\ GroupsReturned
    /\ urls = <<WatchUrlA, BareIdA>>
    /\ VideoIdOf(urls[1]) = VideoIdOf(urls[2])
    /\ script[1].title = "Video A"
    /\ script[2].title = "Video B"
    /\ IdsOf(script[1].items) = <<"c1">>
    /\ IdsOf(script[2].items) = <<"c1", "c2">>
    /\ IdsOf(outcome.value) = <<"c1", "c2">>
    /\ outcome.value[1].videoUrl = WatchUrlA
    /\ outcome.value[1].videoTitle = "Video A"
    /\ outcome.value[2].videoUrl = BareIdA
    /\ outcome.value[2].videoTitle = "Video B"

\* ------------------------------------------------------------------------
\* Properties of the App
\* ------------------------------------------------------------------------

\* The line has nothing but whitespace.
IsBlankLine(line) == \A i \in DOMAIN line : line[i] \in Whitespace

\* The form is not valid: no line of the URL field has a reference, a date
\* is missing, or the start date is after the end date.
InvalidForm(input) ==
    \/ \A i \in DOMAIN input.lines : IsBlankLine(input.lines[i])
    \/ input.startDate = NoDate
    \/ input.endDate = NoDate
    \/ input.startDate > input.endDate

\* The step sets an error and nothing else: no run starts, no request is
\* issued.
ClickRejected ==
    /\ error' # NoError
    /\ UNCHANGED <<inputVars, aborted, pc, localVars, outcome, observedVars,
                   comments, isLoading, abortController, fnCall, script, backend>>

\* The step starts a run on the input.
RunStarted(input) ==
    /\ pc' = "start"
    /\ isLoading'
    /\ urls' # <<>>
    /\ \A i \in DOMAIN urls' : urls'[i] # <<>> /\ Trim(urls'[i]) = urls'[i]
    /\ startDate' = input.startDate
    /\ endDate' = input.endDate
    /\ lastRequest' = NoRequest

\* C34: a click on Extract with a form that is not valid (no reference
\* after trimming and dropping blank lines, a date missing, or the start
\* date after the end date) sets an error, starts no run, issues no
\* request and leaves comments, isLoading and abortController as they
\* are; a click with a valid form, such as one with equal dates, starts a
\* run.
C34_ValidInputOnly ==
    [][ \A input \in FormInputs :
            handleExtractComments(input)
                => IF InvalidForm(input) THEN ClickRejected ELSE RunStarted(input) ]_vars

\* C34: after a run that has returned comments, a click with the start
\* date after the end date was rejected: the error is set, the comments
\* are there, nothing is loading.
C34_Witness ==
    /\ pc = "done"
    /\ outcome.kind = "returned"
    /\ comments # <<>>
    /\ error = <<"Start date cannot be after the end date.">>
    /\ ~isLoading
    /\ abortController = NoController

\* A run is in flight: the call has been made and has not ended.
InFlight == pc \notin {"idle", "done"}

\* C35: isLoading is true exactly while a run is in flight; a run starts
\* only when isLoading is false, so at most one run is in flight; and
\* after a run has ended, by a return, a cancellation or another failure,
\* isLoading is false and abortController is null.
C35_Lifecycle ==
    /\ [](isLoading <=> InFlight)
    /\ [](pc = "done" => ~isLoading /\ abortController = NoController)
    /\ [][(pc' = "start" /\ pc # "start") => ~isLoading /\ ~InFlight]_vars

\* C35: a run that was cancelled has ended; nothing is loading and there
\* is no controller.
C35_Witness ==
    /\ pc = "done"
    /\ outcome.kind = "threw"
    /\ outcome.message = WrappedError(CancelledMessage)
    /\ abortedWhen # "never"
    /\ ~isLoading
    /\ abortController = NoController

\* The latest snapshot delivered to onProgress in this run; none is the
\* empty collection that the start of the run has set.
LatestSnapshot == IF delivered = <<>> THEN <<>> ELSE delivered[Len(delivered)]

\* The run has ended after Cancel was clicked, or by a failure.
CancelledOrFailed ==
    pc = "done" /\ (outcome.kind = "threw" \/ abortedWhen # "never")

\* C36: the start of a run clears comments; while the run is in flight
\* comments is the latest snapshot delivered to onProgress; after a return
\* of a run that was not cancelled comments is the collection returned;
\* after a run that was cancelled or that failed comments is the last
\* snapshot delivered and error is set.
C36_ResultState ==
    /\ [][(pc' = "start" /\ pc # "start") => comments' = <<>>]_vars
    /\ [](InFlight => comments = LatestSnapshot)
    /\ []((pc = "done" /\ outcome.kind = "returned" /\ abortedWhen = "never")
             => comments = outcome.value)
    /\ [](CancelledOrFailed => comments = LatestSnapshot /\ error # NoError)

serverExtractVideoId(url) ==
    LET starts == {i \in DOMAIN url : UrlPatternAt(url, i)}
    IN  IF starts = {}
        THEN (IF DirectIdPattern(url) THEN url ELSE Null)
        ELSE UrlPatternGroup(url, CHOOSE i \in starts : \A j \in starts : i <= j)

\* C38: the service's extractVideoId and the backend's return the same
\* for every string, and an identifier that the service's returns passes
\* the backend's isValidVideoId, so that the backend does not answer 400
\* to a request for a video that the service has resolved.
C38_ResolversAgree ==
    (fnCall.fn = "extractVideoId" /\ fnCall.done)
        => /\ fnCall.result = serverExtractVideoId(fnCall.url)
           /\ fnCall.result # Null => isValidVideoId(fnCall.result)

====
